---- MODULE Spec2Model ----
(***************************************************************************)
(* A model of wakebot's rate-limited API access layer and request budget:  *)
(*   - ApiRateLimiter (src/wakebot/rate_limit.py): token bucket,           *)
(*     concurrency gate and adaptive rate;                                 *)
(*   - HttpClient.gt_get_json / cmc_get_json (src/wakebot/net_http.py):    *)
(*     the throttled GET with Retry-After handling and cycle counters;     *)
(*   - the OHLCV probe budget of run_once (src/wakebot/main.py).           *)
(*                                                                         *)
(* Numbers.  Rates are kept in units of 1/2400 request per second, so that *)
(* every rate the code computes from an integer calls_per_min is an        *)
(* integer: base = 40*cpm, base*0.5 = 20*cpm, base*0.75 = 30*cpm,          *)
(* base*0.10 = 4*cpm and 0.2 rps = 480.  The clock counts ticks of         *)
(* 1/TicksPerSec second.  Tokens are kept in units of 1/(2400*TicksPerSec) *)
(* token, so that "rate * elapsed" is exact.  The arithmetic is that of    *)
(* the reals; the rounding of Python's floats is not modelled.             *)
(*                                                                         *)
(* One HttpClient owns two limiters (GeckoTerminal and CMC) that share     *)
(* nothing but the client's cycle counters.  A behaviour of the model      *)
(* follows one of them, chosen in Init (cfg.provider), together with the   *)
(* calls made through it.                                                  *)
(***************************************************************************)
EXTENDS Integers, Sequences, FiniteSets, TLC

VARIABLES
    cfg,            \* the configuration the client was built from
    limiter,        \* the ApiRateLimiter of cfg.provider
    now,            \* time.monotonic(), in ticks
    last,           \* the last call made on the limiter and what it returned
    round,          \* a single caller's acquire / sleep / release rounds
    pc,             \* per thread: where it stands in gt_get_json / cmc_get_json
    loc,            \* per thread: its local variables
    cycle,          \* HttpClient's per-cycle counters
    hist,           \* what happened in this cycle (ghost history for the properties)
    budget,         \* run_once: the inputs of the probe budget and its result
    call,           \* a pure function of the bot applied to drawn arguments
    wall,           \* time.time() / datetime.now(), in ticks
    cache,          \* the OHLCV caches (GeckoCache, _CMC_OHLCV_CACHE)
    fetch,          \* calls of the OHLCV fetch functions and the upstream requests
    store,          \* Storage: alert state, seen pools, progress cursors
    sent,           \* the notifications handed to Notifier.send, in order
    run,            \* run_once: where the cycle stands and its locals
    work            \* run_once._work: one worker per selected candidate

clientVars == <<cfg, limiter, now, last, round, pc, loc, cycle, hist, budget>>
botVars == <<call, wall, cache, fetch, store, sent, run, work>>
vars == <<cfg, limiter, now, last, round, pc, loc, cycle, hist, budget,
          call, wall, cache, fetch, store, sent, run, work>>

(***************************************************************************)
(* Bounds of the model.                                                    *)
(***************************************************************************)
MaxTime == 4            \* the clock stops after this many ticks
MaxConcurrencyBound == 2 \* the larger gate (CMC's); GeckoTerminal's has one slot less
WindowBound == 4        \* AdaptiveParams.window is drawn from 3..this
MaxRounds == 6          \* rounds of acquire / sleep / release
NumThreads == 2         \* concurrent callers of gt_get_json / cmc_get_json
MaxBudgetInput == 3     \* discovery_cost, spent_so_far, cmc_safety_budget: 0..this
MaxTotalBudget == 12    \* total_budget: 0..this
MaxProbeConfig == 3     \* min_ohlcv_probes and max_ohlcv_probes_cap: 0..this
MaxVolume == 4          \* window volumes given to the alert predicates: 0..this
MaxRatioNum == 3        \* numerator of alert_ratio_min: -1..this, over 1 or 2
MaxMinPrev == 2         \* min_prev24_usd: 0..this
AddrLen == 2            \* length of a token address (the empty one apart)
MaxFetchWall == 6       \* the wall clock of the fetch scenario stops after this many ticks
MaxTtlSec == 2          \* gecko_ttl_sec: 1..this
MaxCandleVolume == 2    \* the volumes an upstream answer carries: 1..this
MaxInvocations == 3     \* invocations of maybe_alert in one scenario
MaxAlertWallSec == 62   \* the wall clock of the maybe_alert scenario stops at this second
MaxCycles == 3          \* cfg.max_cycles: the main loop stops after this many cycles
MaxCycleTicks == 1      \* ticks of the wall clock that pass inside one cycle
MaxPages == 1           \* cmc_pages_per_chain: 0..this
MaxSlugVariants == 2    \* chain slug variants tried for one page: 1..this
MaxDexes == 1           \* DEXes listed for a chain: 0..this

(***************************************************************************)
(* Units and program constants.                                            *)
(***************************************************************************)
TicksPerSec == 2
RateUnit == 40 * 60                 \* 1 request per second
OneToken == RateUnit * TicksPerSec  \* 1.0 token
MinRpsFloor == RateUnit \div 5       \* 0.2 rps: min_rps = max(0.2, base_rps * 0.5)
BackoffThresholdPct == 30           \* backoff_threshold = 0.30
RecoverThresholdPct == 10           \* recover_threshold = 0.10
DecreaseStepPct == 25               \* decrease_step = 0.25
IncreaseStepPct == 10               \* increase_step = 0.10
ThrottleSleepCapSec == 5            \* time.sleep(min(sleep_for, 5.0))
NoHeaderPenalty == 1                \* add_penalty(0.5), in half seconds
SecPerMin == 60                     \* timedelta(minutes=...), "? * 60"
GtReserve == 3                      \* gt_reserve = 3 when the fallback is allowed

Max(a, b) == IF a >= b THEN a ELSE b
Min(a, b) == IF a <= b THEN a ELSE b
CeilDiv(a, b) == (a + b - 1) \div b

Providers == {"gt", "cmc"}

(***************************************************************************)
(* HttpClient.__init__: the AdaptiveParams of a provider's limiter.        *)
(*   base_rps = max(0.0, calls_per_min / 60.0)                             *)
(*   min_rps  = max(0.2, base_rps * 0.5)                                   *)
(***************************************************************************)
BaseRps(c) == Max(0, 40 * c.calls_per_min)
MinRps(c) == Max(MinRpsFloor, BaseRps(c) \div 2)

(***************************************************************************)
(* ApiRateLimiter.__init__                                                 *)
(***************************************************************************)
NewLimiter(c, t) ==
    LET eff == Max(MinRps(c), BaseRps(c)) IN
    [ effective_rps |-> eff,
      capacity      |-> eff,
      tokens        |-> eff * TicksPerSec,
      last_refill   |-> t,
      codes         |-> << >>,
      sem           |-> c.max_concurrency ]

(***************************************************************************)
(* ApiRateLimiter._refill at time t                                        *)
(***************************************************************************)
Refill(l, t) ==
    LET elapsed == t - l.last_refill IN
    IF elapsed <= 0 THEN l
    ELSE [l EXCEPT !.tokens = Min(l.capacity * TicksPerSec,
                                  l.tokens + l.effective_rps * elapsed),
                   !.last_refill = t]

(***************************************************************************)
(* The locked part of ApiRateLimiter.acquire (one pass of its loop):       *)
(* _remove_token_if_available, else the wait until a token is due.         *)
(* Yields the limiter afterwards, whether a token was removed, and the     *)
(* wait returned: need / rate seconds as the pair <<need, rate>>, 0 wait   *)
(* as <<0, 1>>.                                                            *)
(***************************************************************************)
AcquireLocked(l, t) ==
    LET r == Refill(l, t) IN
    IF r.tokens >= OneToken
    THEN [lim |-> [r EXCEPT !.tokens = r.tokens - OneToken],
          removed |-> TRUE, need |-> 0, rate |-> 1]
    ELSE [lim |-> r, removed |-> FALSE,
          need |-> Max(OneToken - r.tokens, 0),
          rate |-> Max(r.effective_rps, 1)]

\* The returned wait in ticks, rounded up to the clock's resolution
\* (time.sleep sleeps at least as long as asked).
WaitTicks(a) == CeilDiv(a.need, a.rate)

(***************************************************************************)
(* ApiRateLimiter.record_status                                            *)
(***************************************************************************)
Append429(codes, status, window) ==
    IF Len(codes) < window THEN Append(codes, status)
    ELSE Append(Tail(codes), status)

TooMany(codes) == Cardinality({i \in 1..Len(codes) : codes[i] = 429})

\* Faulty variant: the decrease step is not applied.
DecreasedRateNoStep(c, old) == Max(MinRps(c), old)

DecreasedRate(c, old) ==
    LET target == Max(MinRps(c), (BaseRps(c) * (100 - DecreaseStepPct)) \div 100)
    IN  Max(MinRps(c), Min(old, target))

\* Faulty variant: the increase step is not applied.
RecoveredRateNoStep(c, old) == Min(BaseRps(c), old)

RecoveredRate(c, old) ==
    Min(BaseRps(c), old + (BaseRps(c) * IncreaseStepPct) \div 100)

RecordStatus(l, c, status) ==
    LET codes == Append429(l.codes, status, c.window)
        l1    == [l EXCEPT !.codes = codes]
        total == Len(codes)
        many  == TooMany(codes)
        old   == l.effective_rps
    IN  IF total < c.window THEN l1
        ELSE IF 100 * many > BackoffThresholdPct * total
        THEN LET new_rate == DecreasedRate(c, old) IN
             IF new_rate < old
             THEN [l1 EXCEPT !.effective_rps = new_rate, !.capacity = new_rate]
             ELSE l1
        ELSE IF 100 * many <= RecoverThresholdPct * total /\ old < BaseRps(c)
        THEN LET target == RecoveredRate(c, old) IN
             IF target > old
             THEN [l1 EXCEPT !.effective_rps = target, !.capacity = target]
             ELSE l1
        ELSE l1

(***************************************************************************)
(* Configurations.  calls_per_min and the retry cap are read from the      *)
(* environment (config.py), each provider having its own.  max_concurrency *)
(* and window are what HttpClient.__init__ passes to ApiRateLimiter: 8     *)
(* slots for GeckoTerminal, 10 for CMC, a window of 60.  The model keeps   *)
(* the gates' order and scales them to its number of threads, and draws    *)
(* the window from a small range.                                          *)
(***************************************************************************)
MaxConcurrency(provider) ==
    IF provider = "gt" THEN MaxConcurrencyBound - 1 ELSE MaxConcurrencyBound

Configs(providers, cpms, caps, windows) ==
    { c \in [ provider        : providers,
              calls_per_min   : cpms,
              retry_after_cap : caps,
              max_concurrency : 1..MaxConcurrencyBound,
              window          : windows ] :
        c.max_concurrency = MaxConcurrency(c.provider) }

Threads == 1..NumThreads

Absent == 0 - 1
Unusable == 0 * 1

NoCall == [op |-> "none", status |-> 0, removed |-> FALSE, wait |-> 0]
IdleRound == [phase |-> "idle", n |-> 0, slept |-> 0, wait |-> 0]
NoLoc == [wake |-> 0, status |-> 0, retry |-> Absent, reg |-> 0,
          amount |-> 0, result |-> "none"]
NoCycle == [requests |-> 0, penalty |-> 0, count_429 |-> 0]
NoHist == [issued |-> 0, removed |-> 0, finished |-> 0, got429 |-> 0,
           slept |-> 0]
NoBudget == [phase |-> "off", total_budget |-> 0, discovery_cost |-> 0,
             spent_so_far |-> 0, cmc_safety_budget |-> 0,
             allow_gt_ohlcv_fallback |-> FALSE, min_ohlcv_probes |-> 0,
             max_ohlcv_probes_cap |-> 0, ohlcv_budget |-> 0]

\* What every specification starts from, given its configurations.
\* The parts of the bot that a behaviour does not exercise.
Unused == [phase |-> "unused"]

BotUnused ==
    /\ call = Unused
    /\ wall = 0
    /\ cache = Unused
    /\ fetch = Unused
    /\ store = Unused
    /\ sent = <<>>
    /\ run = Unused
    /\ work = <<>>

InitWith(cs) ==
    /\ BotUnused
    /\ cfg \in cs
    /\ limiter = NewLimiter(cfg, 0)
    /\ now = 0
    /\ last = NoCall
    /\ round = IdleRound
    /\ pc = [t \in Threads |-> "gate"]
    /\ loc = [t \in Threads |-> NoLoc]
    /\ cycle = NoCycle
    /\ hist = NoHist
    /\ budget = NoBudget

\* time.monotonic() advances.
Tick ==
    /\ now < MaxTime
    /\ now' = now + 1
    /\ UNCHANGED <<cfg, limiter, last, round, pc, loc, cycle, hist, budget, botVars>>

(***************************************************************************)
(* SpecLimiter: one caller using the limiter's methods in any order, as    *)
(* the unit tests do.                                                      *)
(***************************************************************************)
LimiterCallsPerMin == {6, 30, 60, 120}

\* limiter.acquire(): takes the gate, then one pass of the locked loop.
CallAcquire ==
    /\ limiter.sem > 0
    /\ LET a == AcquireLocked([limiter EXCEPT !.sem = @ - 1], now) IN
       /\ limiter' = a.lim
       /\ last' = [op |-> "acquire", status |-> 0, removed |-> a.removed,
                   wait |-> WaitTicks(a)]
    /\ UNCHANGED <<cfg, now, round, pc, loc, cycle, hist, budget, botVars>>

\* limiter.release()
CallRelease ==
    /\ limiter.sem < cfg.max_concurrency
    /\ limiter' = [limiter EXCEPT !.sem = @ + 1]
    /\ last' = [NoCall EXCEPT !.op = "release"]
    /\ UNCHANGED <<cfg, now, round, pc, loc, cycle, hist, budget, botVars>>

\* limiter.record_status(status)
CallRecordStatus(status) ==
    /\ limiter' = RecordStatus(limiter, cfg, status)
    /\ last' = [NoCall EXCEPT !.op = "record_status", !.status = status]
    /\ UNCHANGED <<cfg, now, round, pc, loc, cycle, hist, budget, botVars>>

InitLimiter ==
    InitWith(Configs({"cmc"}, LimiterCallsPerMin, {1},
                     (WindowBound - 1)..WindowBound))

NextLimiter ==
    \/ Tick
    \/ CallAcquire
    \/ CallRelease
    \/ \E status \in {200, 429} : CallRecordStatus(status)

SpecLimiter == InitLimiter /\ [][NextLimiter]_vars

(***************************************************************************)
(* C1: for every limiter HttpClient constructs, in every reachable state   *)
(* min_rps <= effective_rps <= base_rps.                                   *)
(* Fails in the initial state when calls_per_min < 12: base_rps < 0.2 =    *)
(* min_rps and __init__ takes max(min_rps, base_rps).                      *)
(***************************************************************************)
C1_RateWithinBounds ==
    /\ MinRps(cfg) <= limiter.effective_rps
    /\ limiter.effective_rps <= BaseRps(cfg)

(***************************************************************************)
(* C2: in every reachable state tokens <= capacity and capacity equals     *)
(* effective_rps, also right after record_status lowered the rate.         *)
(* record_status lowers _capacity and leaves _tokens alone.                *)
(***************************************************************************)
C2_TokensWithinCapacity ==
    /\ limiter.tokens <= limiter.capacity * TicksPerSec
    /\ limiter.capacity = limiter.effective_rps

(***************************************************************************)
(* C5: starting from effective_rps = base_rps with min_rps < base_rps, a   *)
(* record_status that completes a full window with a 429 ratio above       *)
(* backoff_threshold leaves effective_rps strictly below base_rps; a       *)
(* record_status whose full window has a ratio at or below                 *)
(* recover_threshold never lowers effective_rps nor raises it above        *)
(* base_rps.                                                               *)
(***************************************************************************)
IsRecordStatusStep ==
    /\ last'.op = "record_status"
    /\ now' = now
    /\ limiter'.sem = limiter.sem
    /\ limiter'.codes = Append429(limiter.codes, last'.status, cfg.window)

RatioAbove(codes, pct) == 100 * TooMany(codes) > pct * Len(codes)

C5_DecreaseThenRecover ==
    [][ (/\ IsRecordStatusStep
         /\ Len(limiter'.codes) = cfg.window
         /\ MinRps(cfg) < BaseRps(cfg))
        =>
        /\ (/\ RatioAbove(limiter'.codes, BackoffThresholdPct)
            /\ limiter.effective_rps = BaseRps(cfg))
           => limiter'.effective_rps < BaseRps(cfg)
        /\ ~RatioAbove(limiter'.codes, RecoverThresholdPct)
           => /\ limiter'.effective_rps >= limiter.effective_rps
              /\ limiter'.effective_rps <= BaseRps(cfg) ]_vars

\* A rate strictly between the decreased rate and base_rps: the limiter
\* backed off from base_rps and has recovered one step since.
C5_Witness ==
    /\ last.op = "record_status"
    /\ MinRps(cfg) < BaseRps(cfg)
    /\ Len(limiter.codes) = cfg.window
    /\ ~RatioAbove(limiter.codes, RecoverThresholdPct)
    /\ limiter.effective_rps > DecreasedRate(cfg, BaseRps(cfg))
    /\ limiter.effective_rps < BaseRps(cfg)

(***************************************************************************)
(* SpecRounds: one thread repeats acquire(), sleep for the returned wait,  *)
(* release(), as test_token_bucket_limits_throughput does.  Nothing else   *)
(* touches the limiter and time passes only in the sleeps.  The configured *)
(* rates are at most 1 rps, so that the full bucket holds at most the one  *)
(* "free" token the bound allows for, and are such that every wait is a    *)
(* whole number of ticks.                                                  *)
(***************************************************************************)
RoundsCallsPerMin == {6, 12, 15, 20, 30, 60}

RoundAcquire ==
    /\ round.phase = "idle"
    /\ round.n < MaxRounds
    /\ limiter.sem > 0
    /\ LET a == AcquireLocked([limiter EXCEPT !.sem = @ - 1], now) IN
       /\ limiter' = a.lim
       /\ last' = [op |-> "acquire", status |-> 0, removed |-> a.removed,
                   wait |-> WaitTicks(a)]
       /\ round' = [round EXCEPT !.phase = IF a.need > 0 THEN "sleep" ELSE "release",
                                 !.wait = WaitTicks(a)]
    /\ UNCHANGED <<cfg, now, pc, loc, cycle, hist, budget, botVars>>

RoundSleep ==
    /\ round.phase = "sleep"
    /\ now' = now + round.wait
    /\ round' = [round EXCEPT !.phase = "release", !.slept = @ + round.wait]
    /\ UNCHANGED <<cfg, limiter, last, pc, loc, cycle, hist, budget, botVars>>

RoundRelease ==
    /\ round.phase = "release"
    /\ limiter' = [limiter EXCEPT !.sem = @ + 1]
    /\ last' = [NoCall EXCEPT !.op = "release"]
    /\ round' = [round EXCEPT !.phase = "idle", !.n = @ + 1, !.wait = 0]
    /\ UNCHANGED <<cfg, now, pc, loc, cycle, hist, budget, botVars>>

InitRounds ==
    InitWith(Configs(Providers, RoundsCallsPerMin, {1}, {WindowBound}))

NextRounds == RoundAcquire \/ RoundSleep \/ RoundRelease

SpecRounds == InitRounds /\ [][NextRounds]_vars

(***************************************************************************)
(* C4: after N rounds of acquire(), sleep for the returned wait, release() *)
(* by a single thread at a constant rate R, the total time slept is at     *)
(* least (N-1)/R seconds.  In the model's units: slept ticks * rate >=     *)
(* (N-1) tokens.                                                           *)
(***************************************************************************)
C4_SleptAtLeast ==
    (round.phase = "idle" /\ round.n >= 1)
    => round.slept * limiter.effective_rps >= (round.n - 1) * OneToken

\* In SpecRounds every returned wait is a whole number of ticks.
RoundsWaitExact ==
    round.phase = "sleep"
    => round.wait * limiter.effective_rps = OneToken - limiter.tokens

(***************************************************************************)
(* SpecHttp: threads calling gt_get_json / cmc_get_json of one client.     *)
(* Each thread makes one call per cycle.  A step is one access to shared   *)
(* state: the gate, a locked section of the limiter, a read or a write of  *)
(* a cycle counter ("self._cycle_requests += 1" is a load and a store with *)
(* no lock held, so another thread may run in between).  Penalties and the *)
(* time slept for Retry-After are counted in half seconds.                 *)
(***************************************************************************)
HttpCallsPerMin == {30, 60}
RetryAfterCapsSec == {1}
\* Retry-After as _parse_retry_after reads it: a number of seconds, Unusable
\* when it is not positive or cannot be parsed, Absent when there is no header.
RetryAfterHeaders == {Absent, Unusable, 2}
Statuses == {200, 429, 500}

\* Faulty variant: the gate does not block when no slot is free.
SemAcquireNoWait(t) ==
    /\ pc[t] = "gate"
    /\ limiter' = [limiter EXCEPT !.sem = @ - 1]
    /\ pc' = [pc EXCEPT ![t] = "bucket"]
    /\ UNCHANGED <<cfg, now, last, round, loc, cycle, hist, budget, botVars>>

\* self._limiter.acquire(): self._sem.acquire()
SemAcquire(t) ==
    /\ pc[t] = "gate"
    /\ limiter.sem > 0
    /\ limiter' = [limiter EXCEPT !.sem = @ - 1]
    /\ pc' = [pc EXCEPT ![t] = "bucket"]
    /\ UNCHANGED <<cfg, now, last, round, loc, cycle, hist, budget, botVars>>

\* time.sleep(min(sleep_for, 5.0)), in ticks.
ThrottleSleep(a) == Min(WaitTicks(a), ThrottleSleepCapSec * TicksPerSec)

\* acquire(), under the lock: a token is removed and 0.0 returned, or the
\* wait is returned; the caller then sleeps min(sleep_for, 5.0).
TakeToken(t) ==
    /\ pc[t] = "bucket"
    /\ LET a == AcquireLocked(limiter, now) IN
       /\ limiter' = a.lim
       /\ IF a.removed
          THEN /\ pc' = [pc EXCEPT ![t] = "get"]
               /\ hist' = [hist EXCEPT !.removed = @ + 1]
               /\ loc' = loc
          ELSE /\ pc' = [pc EXCEPT ![t] = "throttle"]
               /\ hist' = hist
               /\ loc' = [loc EXCEPT ![t].wake = now + ThrottleSleep(a)]
    /\ UNCHANGED <<cfg, now, last, round, cycle, budget, botVars>>

\* time.sleep(min(sleep_for, 5.0)) returns.
Throttled(t) ==
    /\ pc[t] = "throttle"
    /\ now >= loc[t].wake
    /\ pc' = [pc EXCEPT ![t] = "get"]
    /\ loc' = [loc EXCEPT ![t].wake = 0]
    /\ UNCHANGED <<cfg, limiter, now, last, round, cycle, hist, budget, botVars>>

\* Faulty variant: release() is not in a finally block, an exception skips it.
GetRaisesNoRelease(t) ==
    /\ pc[t] = "get"
    /\ hist' = [hist EXCEPT !.issued = @ + 1]
    /\ loc' = [loc EXCEPT ![t].result = "raised"]
    /\ pc' = [pc EXCEPT ![t] = "load_requests"]
    /\ UNCHANGED <<cfg, limiter, now, last, round, cycle, budget, botVars>>

\* session.get(url) raises (connection error, timeout, retries exhausted).
GetRaises(t) ==
    /\ pc[t] = "get"
    /\ hist' = [hist EXCEPT !.issued = @ + 1]
    /\ loc' = [loc EXCEPT ![t].result = "raised"]
    /\ pc' = [pc EXCEPT ![t] = "release"]
    /\ UNCHANGED <<cfg, limiter, now, last, round, cycle, budget, botVars>>

\* session.get(url) returns a response.
GetReturns(t, status, retry) ==
    /\ pc[t] = "get"
    /\ status = 429 \/ retry = Absent
    /\ hist' = [hist EXCEPT !.issued = @ + 1,
                            !.got429 = IF status = 429 THEN @ + 1 ELSE @]
    /\ loc' = [loc EXCEPT ![t].status = status, ![t].retry = retry]
    /\ pc' = [pc EXCEPT ![t] = "record"]
    /\ UNCHANGED <<cfg, limiter, now, last, round, cycle, budget, botVars>>

\* self._limiter.record_status(status); then, unless the status is 429,
\* r.raise_for_status() and r.json().
Record(t) ==
    /\ pc[t] = "record"
    /\ limiter' = RecordStatus(limiter, cfg, loc[t].status)
    /\ IF loc[t].status = 429
       THEN /\ pc' = [pc EXCEPT ![t] = "load_429"]
            /\ loc' = loc
       ELSE /\ pc' = [pc EXCEPT ![t] = "release"]
            /\ loc' = [loc EXCEPT ![t].result =
                         IF loc[t].status = 200 THEN "returned" ELSE "http_error"]
    /\ UNCHANGED <<cfg, now, last, round, cycle, hist, budget, botVars>>

\* self._cycle_429 += 1: the load
Load429(t) ==
    /\ pc[t] = "load_429"
    /\ loc' = [loc EXCEPT ![t].reg = cycle.count_429]
    /\ pc' = [pc EXCEPT ![t] = "store_429"]
    /\ UNCHANGED <<cfg, limiter, now, last, round, cycle, hist, budget, botVars>>

\* Faulty variant: the Retry-After sleep is not capped.
ActualSleepUncapped(c, retry) == retry

\* The capped Retry-After sleep, in seconds: min(sleep_s, max(0.0, cap)).
ActualSleep(c, retry) == Min(retry, Max(0, c.retry_after_cap))

\* self._cycle_429 += 1: the store; then the Retry-After header is read.
Store429(t) ==
    /\ pc[t] = "store_429"
    /\ cycle' = [cycle EXCEPT !.count_429 = loc[t].reg + 1]
    /\ CASE loc[t].retry = Absent ->
              \* no header: add_penalty(0.5)
              /\ loc' = [loc EXCEPT ![t].reg = 0,
                                    ![t].amount = NoHeaderPenalty]
              /\ pc' = [pc EXCEPT ![t] = "load_penalty"]
         [] loc[t].retry = Unusable ->
              \* a header _parse_retry_after cannot use: r.raise_for_status()
              /\ loc' = [loc EXCEPT ![t].reg = 0, ![t].result = "http_error"]
              /\ pc' = [pc EXCEPT ![t] = "release"]
         [] OTHER ->
              \* time.sleep(actual_sleep)
              /\ loc' = [loc EXCEPT ![t].reg = 0,
                                    ![t].amount = 2 * ActualSleep(cfg, loc[t].retry),
                                    ![t].wake = now + ActualSleep(cfg, loc[t].retry)
                                                      * TicksPerSec]
              /\ pc' = [pc EXCEPT ![t] = "retry_sleep"]
    /\ UNCHANGED <<cfg, limiter, now, last, round, hist, budget, botVars>>

\* time.sleep(actual_sleep) returns.
RetrySlept(t) ==
    /\ pc[t] = "retry_sleep"
    /\ now >= loc[t].wake
    /\ hist' = [hist EXCEPT !.slept = @ + loc[t].amount]
    /\ loc' = [loc EXCEPT ![t].wake = 0]
    /\ pc' = [pc EXCEPT ![t] = "load_penalty"]
    /\ UNCHANGED <<cfg, limiter, now, last, round, cycle, budget, botVars>>

\* add_penalty(seconds): self._cycle_penalty += float(seconds), the load
LoadPenalty(t) ==
    /\ pc[t] = "load_penalty"
    /\ loc' = [loc EXCEPT ![t].reg = cycle.penalty]
    /\ pc' = [pc EXCEPT ![t] = "store_penalty"]
    /\ UNCHANGED <<cfg, limiter, now, last, round, cycle, hist, budget, botVars>>

\* add_penalty: the store; then r.raise_for_status() raises for the 429.
StorePenalty(t) ==
    /\ pc[t] = "store_penalty"
    /\ cycle' = [cycle EXCEPT !.penalty = loc[t].reg + loc[t].amount]
    /\ loc' = [loc EXCEPT ![t].reg = 0, ![t].amount = 0,
                          ![t].result = "http_error"]
    /\ pc' = [pc EXCEPT ![t] = "release"]
    /\ UNCHANGED <<cfg, limiter, now, last, round, hist, budget, botVars>>

\* finally: self._limiter.release()
Release(t) ==
    /\ pc[t] = "release"
    /\ limiter' = [limiter EXCEPT !.sem = @ + 1]
    /\ pc' = [pc EXCEPT ![t] = "load_requests"]
    /\ UNCHANGED <<cfg, now, last, round, loc, cycle, hist, budget, botVars>>

\* finally: self._cycle_requests += 1, the load
LoadRequests(t) ==
    /\ pc[t] = "load_requests"
    /\ loc' = [loc EXCEPT ![t].reg = cycle.requests]
    /\ pc' = [pc EXCEPT ![t] = "store_requests"]
    /\ UNCHANGED <<cfg, limiter, now, last, round, cycle, hist, budget, botVars>>

\* finally: self._cycle_requests += 1, the store; the call is over.
StoreRequests(t) ==
    /\ pc[t] = "store_requests"
    /\ cycle' = [cycle EXCEPT !.requests = loc[t].reg + 1]
    /\ hist' = [hist EXCEPT !.finished = @ + 1]
    /\ loc' = [loc EXCEPT ![t].reg = 0, ![t].status = 0, ![t].retry = Absent]
    /\ pc' = [pc EXCEPT ![t] = "done"]
    /\ UNCHANGED <<cfg, limiter, now, last, round, budget, botVars>>

AllDone == \A t \in Threads : pc[t] = "done"

\* reset_cycle_counters(), called by run_once before it starts the workers
\* of a cycle.
ResetCycleCounters ==
    /\ AllDone
    /\ cycle' = NoCycle
    /\ hist' = NoHist
    /\ pc' = [t \in Threads |-> "gate"]
    /\ loc' = [t \in Threads |-> NoLoc]
    /\ UNCHANGED <<cfg, limiter, now, last, round, budget, botVars>>

InitHttp ==
    InitWith(Configs(Providers, HttpCallsPerMin, RetryAfterCapsSec,
                     {WindowBound - 1}))

NextHttp ==
    \/ Tick
    \/ ResetCycleCounters
    \/ \E t \in Threads :
         \/ SemAcquire(t)
         \/ TakeToken(t)
         \/ Throttled(t)
         \/ GetRaises(t)
         \/ \E status \in Statuses, retry \in RetryAfterHeaders :
              GetReturns(t, status, retry)
         \/ Record(t)
         \/ Load429(t)
         \/ Store429(t)
         \/ RetrySlept(t)
         \/ LoadPenalty(t)
         \/ StorePenalty(t)
         \/ Release(t)
         \/ LoadRequests(t)
         \/ StoreRequests(t)

SpecHttp == InitHttp /\ [][NextHttp]_vars

\* The threads that are past acquire() and have not yet released the gate.
AfterAcquire ==
    { t \in Threads :
        pc[t] \in {"throttle", "get", "record", "load_429", "store_429",
                   "retry_sleep", "load_penalty", "store_penalty", "release"} }

\* The threads that hold a slot of the gate.
HoldsGate == AfterAcquire \cup { t \in Threads : pc[t] = "bucket" }

\* No call is under way.
Quiet == \A t \in Threads : pc[t] \in {"gate", "done"}

(***************************************************************************)
(* C3: every GET is preceded by the removal of one token by the same       *)
(* call's acquire(): the GETs issued never outnumber the tokens removed.   *)
(* acquire() returns a positive wait without removing a token, and the     *)
(* caller issues its GET after the sleep.                                  *)
(***************************************************************************)
C3_GetNeedsToken == hist.issued <= hist.removed

(***************************************************************************)
(* C6: under any interleaving, the calls between a completed acquire() and *)
(* the matching release() never outnumber max_concurrency.                 *)
(***************************************************************************)
C6_GateBound == Cardinality(AfterAcquire) <= cfg.max_concurrency

\* The gate is full while another caller stands at self._sem.acquire().
C6_Witness ==
    /\ Cardinality(AfterAcquire) = cfg.max_concurrency
    /\ limiter.sem = 0
    /\ \E t \in Threads : pc[t] = "gate"

(***************************************************************************)
(* C7: each call releases the gate exactly once for its acquire(), whether *)
(* the GET returns 2xx, returns a non-2xx status or raises: the free slots *)
(* and the slots held always add up to max_concurrency, so once all calls  *)
(* have finished the free slots equal max_concurrency again.               *)
(***************************************************************************)
C7_GateReleasedOnce ==
    /\ limiter.sem + Cardinality(HoldsGate) = cfg.max_concurrency
    /\ AllDone => limiter.sem = cfg.max_concurrency

\* All calls are over, one whose GET raised and one that got a non-2xx status.
C7_Witness ==
    /\ AllDone
    /\ limiter.sem = cfg.max_concurrency
    /\ \E t \in Threads : loc[t].result = "raised"
    /\ \E t \in Threads : loc[t].result = "http_error"

(***************************************************************************)
(* C8: once N concurrent calls have all finished since the last            *)
(* reset_cycle_counters, get_cycle_requests() returns exactly N.           *)
(* Two threads may load the same value of _cycle_requests and both store   *)
(* it plus one.                                                            *)
(***************************************************************************)
C8_RequestsCounted == AllDone => cycle.requests = hist.finished

(***************************************************************************)
(* C9: penalty_seconds equals the sum of the capped Retry-After sleeps     *)
(* performed for this cycle's 429 responses, and count_429 equals the      *)
(* number of 429 responses received in this cycle.  Stated when no call is *)
(* under way.  A 429 without Retry-After adds 0.5 s of penalty with no     *)
(* sleep, and both counters are updated by unlocked loads and stores.      *)
(***************************************************************************)
C9_PenaltyAccounting ==
    Quiet => /\ cycle.penalty = hist.slept
             /\ cycle.count_429 = hist.got429

(***************************************************************************)
(* SpecBudget: the OHLCV probe budget of run_once, for bounded inputs.     *)
(*   total_budget   = int(cmc_calls_per_min * (loop_seconds / 60.0))       *)
(*   discovery_cost = the pages planned by the chains' discoveries         *)
(*   spent_so_far   = int(get_cycle_requests() + get_cycle_penalty())      *)
(* and the configuration's cmc_safety_budget, allow_gt_ohlcv_fallback,     *)
(* min_ohlcv_probes and max_ohlcv_probes_cap.                              *)
(***************************************************************************)
BudgetInputs ==
    [ phase                   : {"inputs"},
      total_budget            : 0..MaxTotalBudget,
      discovery_cost          : 0..MaxBudgetInput,
      spent_so_far            : 0..MaxBudgetInput,
      cmc_safety_budget       : 0..MaxBudgetInput,
      allow_gt_ohlcv_fallback : BOOLEAN,
      min_ohlcv_probes        : 0..MaxProbeConfig,
      max_ohlcv_probes_cap    : 0..MaxProbeConfig,
      ohlcv_budget            : {0} ]

Reserve(b) ==
    b.cmc_safety_budget + (IF b.allow_gt_ohlcv_fallback THEN GtReserve ELSE 0)

\* available_for_ohlcv
AvailableForOhlcv(b) ==
    LET base_available == Max(0, b.total_budget - b.discovery_cost - Reserve(b))
    IN  Max(0, base_available - b.spent_so_far)

\* Faulty variant: the budget is not capped by max_ohlcv_probes_cap.
OhlcvBudgetNoCap(b) ==
    IF AvailableForOhlcv(b) > 0
    THEN Max(b.min_ohlcv_probes, AvailableForOhlcv(b))
    ELSE 0

\* Faulty variant: the floor min_ohlcv_probes is not applied.
OhlcvBudgetNoFloor(b) ==
    IF AvailableForOhlcv(b) > 0
    THEN Min(AvailableForOhlcv(b), b.max_ohlcv_probes_cap)
    ELSE 0

\* ohlcv_budget
OhlcvBudget(b) ==
    IF AvailableForOhlcv(b) > 0
    THEN Max(b.min_ohlcv_probes,
             Min(AvailableForOhlcv(b), b.max_ohlcv_probes_cap))
    ELSE 0

ComputeBudget ==
    /\ budget.phase = "inputs"
    /\ budget' = [budget EXCEPT !.phase = "computed",
                                !.ohlcv_budget = OhlcvBudget(budget)]
    /\ UNCHANGED <<cfg, limiter, now, last, round, pc, loc, cycle, hist, botVars>>

InitBudget ==
    /\ BotUnused
    /\ cfg \in Configs({"cmc"}, {60}, {1}, {WindowBound})
    /\ limiter = NewLimiter(cfg, 0)
    /\ now = 0
    /\ last = NoCall
    /\ round = IdleRound
    /\ pc = [t \in Threads |-> "gate"]
    /\ loc = [t \in Threads |-> NoLoc]
    /\ cycle = NoCycle
    /\ hist = NoHist
    /\ budget \in BudgetInputs

NextBudget == ComputeBudget

SpecBudget == InitBudget /\ [][NextBudget]_vars

(***************************************************************************)
(* C10 as stated: for all non-negative total_budget, discovery_cost,       *)
(* spent_so_far and reserve and every configuration of min_ohlcv_probes    *)
(* and max_ohlcv_probes_cap (here: non-negative ones),                     *)
(* 0 <= ohlcv_budget <= max_ohlcv_probes_cap.                              *)
(* Fails when min_ohlcv_probes > max_ohlcv_probes_cap: the floor is        *)
(* applied after the cap.                                                  *)
(***************************************************************************)
C10_BudgetWithinCap ==
    budget.phase = "computed"
    => /\ 0 <= budget.ohlcv_budget
       /\ budget.ohlcv_budget <= budget.max_ohlcv_probes_cap

(***************************************************************************)
(* C10 as amended: for the same inputs and every configuration of         *)
(* non-negative min_ohlcv_probes and max_ohlcv_probes_cap,                 *)
(* 0 <= ohlcv_budget <= max(max_ohlcv_probes_cap, min_ohlcv_probes); hence *)
(* ohlcv_budget <= max_ohlcv_probes_cap whenever min_ohlcv_probes does not *)
(* exceed the cap.                                                         *)
(***************************************************************************)
C10_BudgetWithinCapOrFloor ==
    budget.phase = "computed"
    => /\ 0 <= budget.ohlcv_budget
       /\ budget.ohlcv_budget
            <= Max(budget.max_ohlcv_probes_cap, budget.min_ohlcv_probes)
       /\ budget.min_ohlcv_probes <= budget.max_ohlcv_probes_cap
          => budget.ohlcv_budget <= budget.max_ohlcv_probes_cap

\* More is available than the cap allows, and the budget is the cap.
C10_Witness ==
    /\ budget.phase = "computed"
    /\ budget.discovery_cost > 0
    /\ budget.min_ohlcv_probes >= 0
    /\ budget.min_ohlcv_probes < budget.max_ohlcv_probes_cap
    /\ AvailableForOhlcv(budget) > budget.max_ohlcv_probes_cap
    /\ budget.ohlcv_budget = budget.max_ohlcv_probes_cap

(***************************************************************************)
(* The bot around the client.  A behaviour of the specifications below     *)
(* leaves the client of the first part alone.                              *)
(***************************************************************************)
ClientUnused ==
    /\ cfg \in Configs({"cmc"}, {60}, {1}, {WindowBound})
    /\ limiter = NewLimiter(cfg, 0)
    /\ now = 0
    /\ last = NoCall
    /\ round = IdleRound
    /\ pc = [t \in Threads |-> "gate"]
    /\ loc = [t \in Threads |-> NoLoc]
    /\ cycle = NoCycle
    /\ hist = NoHist
    /\ budget = NoBudget

(***************************************************************************)
(* SpecAlertRule: the alert predicates of alerts.py applied to drawn       *)
(* arguments.  Volumes are whole numbers of USD; a ratio is the rational   *)
(* num/den, so that "a > b * ratio" is a * den > b * num.  The arithmetic  *)
(* is that of the reals; the rounding of floats is not modelled.           *)
(***************************************************************************)
Ratios == [num : (0 - 1)..MaxRatioNum, den : 1..2]

\* cfg.alert_ratio_min
AlertRatioMins == [num : 0..MaxRatioNum, den : 1..2]

\* a > b * r
GreaterThanTimes(a, b, r) == a * r.den > b * r.num

\* Faulty variant: the comparison is not strict.
ShouldAlertNotStrict(vol1h, prev48h, ratio_min) ==
    /\ vol1h > 0
    /\ prev48h > 0
    /\ vol1h * ratio_min.den >= prev48h * ratio_min.num

\* should_alert(vol1h, prev48h, ratio_min)
ShouldAlert(vol1h, prev48h, ratio_min) ==
    /\ vol1h > 0
    /\ prev48h > 0
    /\ GreaterThanTimes(vol1h, prev48h, ratio_min)

\* should_alert_revival_cmc(vol1h, prev24h, ok_age, cfg)
ShouldAlertRevivalCmc(vol1h, prev24h, ok_age, min_prev24_usd, alert_ratio_min) ==
    IF ~ok_age THEN FALSE
    ELSE IF ~(prev24h >= min_prev24_usd) THEN FALSE
    ELSE GreaterThanTimes(vol1h, prev24h, alert_ratio_min)

AlertRuleArgs ==
    [ phase : {"args"}, fn : {"should_alert"},
      vol1h : 0..MaxVolume, prev : 0..MaxVolume, ratio : Ratios,
      ok_age : {TRUE}, min_prev24_usd : {0}, result : {FALSE} ]
    \cup
    [ phase : {"args"}, fn : {"should_alert_revival_cmc"},
      vol1h : 0..MaxVolume, prev : 0..MaxVolume, ratio : AlertRatioMins,
      ok_age : BOOLEAN, min_prev24_usd : 0..MaxMinPrev, result : {FALSE} ]

ApplyShouldAlert ==
    /\ call.phase = "args"
    /\ call.fn = "should_alert"
    /\ call' = [call EXCEPT !.phase = "returned",
                            !.result = ShouldAlert(call.vol1h, call.prev, call.ratio)]
    /\ UNCHANGED <<clientVars, wall, cache, fetch, store, sent, run, work>>

ApplyShouldAlertRevivalCmc ==
    /\ call.phase = "args"
    /\ call.fn = "should_alert_revival_cmc"
    /\ call' = [call EXCEPT !.phase = "returned",
                            !.result = ShouldAlertRevivalCmc(call.vol1h, call.prev,
                                           call.ok_age, call.min_prev24_usd, call.ratio)]
    /\ UNCHANGED <<clientVars, wall, cache, fetch, store, sent, run, work>>

InitAlertRule ==
    /\ ClientUnused
    /\ call \in AlertRuleArgs
    /\ wall = 0
    /\ cache = Unused
    /\ fetch = Unused
    /\ store = Unused
    /\ sent = <<>>
    /\ run = Unused
    /\ work = <<>>

NextAlertRule == ApplyShouldAlert \/ ApplyShouldAlertRevivalCmc

SpecAlertRule == InitAlertRule /\ [][NextAlertRule]_vars

Returned(fn) == call.phase = "returned" /\ call.fn = fn

(***************************************************************************)
(* C17: should_alert(cur, prior, ratio) is true exactly when cur > 0,      *)
(* prior > 0 and cur > prior * ratio.  The comparison is strict: with      *)
(* ratio = 1 equal volumes never alert, and should_alert(0, 0) is false.   *)
(***************************************************************************)
C17_ShouldAlertExact ==
    Returned("should_alert")
    => /\ call.result <=> /\ call.vol1h > 0
                          /\ call.prev > 0
                          /\ call.vol1h * call.ratio.den > call.prev * call.ratio.num
       /\ (call.ratio.num = call.ratio.den /\ call.vol1h = call.prev) => ~call.result
       /\ (call.vol1h = 0 /\ call.prev = 0) => ~call.result

\* Equal positive volumes at ratio 1 (the test's should_alert(50, 50, 1.0)).
C17_Witness ==
    /\ Returned("should_alert")
    /\ call.ratio.num = call.ratio.den
    /\ call.vol1h = call.prev
    /\ call.vol1h > 0
    /\ ~call.result

(***************************************************************************)
(* C18: should_alert_revival_cmc returns true only if the current-window   *)
(* volume is > 0, the prior-window volume is >= min_prev24_usd and the     *)
(* current-window volume is > prior * alert_ratio_min; for every           *)
(* configuration it never returns true when the prior-window volume is 0.  *)
(* Fails: with min_prev24_usd = 0 a prior volume of 0 passes the floor,    *)
(* and any positive current volume is then > 0 * ratio.                    *)
(***************************************************************************)
C18_RevivalOnlyIf ==
    (Returned("should_alert_revival_cmc") /\ call.result)
    => /\ call.vol1h > 0
       /\ call.prev >= call.min_prev24_usd
       /\ call.vol1h * call.ratio.den > call.prev * call.ratio.num
       /\ call.prev # 0

(***************************************************************************)
(* SpecFilters: is_token_native_pair of filters.py applied to drawn pairs. *)
(* A string is a sequence of characters; str.lower() and str.upper() act   *)
(* character by character.  The tables of constants.py are kept in shape:  *)
(* the EVM native addresses are written in lower case, Solana's has        *)
(* capitals, "bsc" is an EVM chain without a native address.               *)
(***************************************************************************)
LowerChar(c) == CASE c = "A" -> "a" [] c = "B" -> "b" [] c = "W" -> "w"
                  [] c = "S" -> "s" [] c = "T" -> "t" [] OTHER -> c
UpperChar(c) == CASE c = "a" -> "A" [] c = "b" -> "B" [] c = "w" -> "W"
                  [] c = "s" -> "S" [] c = "t" -> "T" [] OTHER -> c
Lower(str) == [i \in DOMAIN str |-> LowerChar(str[i])]
Upper(str) == [i \in DOMAIN str |-> UpperChar(str[i])]

FilterChains == {"ethereum", "solana", "bsc"}
EvmChains == {"base", "ethereum", "bsc", "polygon", "arbitrum", "optimism", "avalanche"}

\* NATIVE_ADDR.get(chain, set())
NATIVE_ADDR(chain) ==
    CASE chain = "ethereum" -> {<<"a", "b">>}
      [] chain = "solana" -> {<<"A", "b">>}
      [] OTHER -> {}

\* NATIVE_SYMBOLS.get(chain, set())
NATIVE_SYMBOLS(chain) ==
    CASE chain = "ethereum" -> {<<"W">>}
      [] chain = "solana" -> {<<"S">>}
      [] OTHER -> {}

\* normalize_address(chain, address)
NormalizeAddress(chain, address) ==
    IF address = <<>> THEN <<>>
    ELSE IF chain \in EvmChains THEN Lower(address) ELSE address

Addresses == {<<>>} \cup [1..AddrLen -> {"a", "A", "b"}]
Symbols == {<<>>, <<"w">>, <<"W">>, <<"s">>, <<"S">>, <<"t">>}
Tokens == [address : Addresses, symbol : Symbols]

\* Faulty variant: the swapped orientation is not turned round.
IsTokenNativePairNoSwap(chain, base_token, quote_token) ==
    IF NATIVE_ADDR(chain) = {}
    THEN [ok |-> FALSE, token |-> "base", native |-> "quote"]
    ELSE LET native_cmp == NormalizeAddress(chain, CHOOSE a \in NATIVE_ADDR(chain) : TRUE)
             b_addr == NormalizeAddress(chain, base_token.address)
             q_addr == NormalizeAddress(chain, quote_token.address)
         IN  [ok |-> (q_addr = native_cmp) # (b_addr = native_cmp),
              token |-> "base", native |-> "quote"]

\* is_token_native_pair(chain, base_token, quote_token); token and native
\* name the argument returned as token side and as native side.
IsTokenNativePair(chain, base_token, quote_token) ==
    IF NATIVE_ADDR(chain) = {}
    THEN [ok |-> FALSE, token |-> "base", native |-> "quote"]
    ELSE LET native_cmp == NormalizeAddress(chain, CHOOSE a \in NATIVE_ADDR(chain) : TRUE)
             b_addr == NormalizeAddress(chain, base_token.address)
             q_addr == NormalizeAddress(chain, quote_token.address)
             b_symbol == Upper(base_token.symbol)
             q_symbol == Upper(quote_token.symbol)
             native_symbols == {Upper(sym) : sym \in NATIVE_SYMBOLS(chain)}
         IN  IF q_addr = native_cmp /\ b_addr # native_cmp
             THEN [ok |-> TRUE, token |-> "base", native |-> "quote"]
             ELSE IF b_addr = native_cmp /\ q_addr # native_cmp
             THEN [ok |-> TRUE, token |-> "quote", native |-> "base"]
             ELSE IF q_symbol \in native_symbols /\ b_symbol \notin native_symbols
             THEN [ok |-> TRUE, token |-> "base", native |-> "quote"]
             ELSE IF b_symbol \in native_symbols /\ q_symbol \notin native_symbols
             THEN [ok |-> TRUE, token |-> "quote", native |-> "base"]
             ELSE [ok |-> FALSE, token |-> "base", native |-> "quote"]

FilterArgs ==
    [ phase : {"args"}, fn : {"is_token_native_pair"}, chain : FilterChains,
      base_token : Tokens, quote_token : Tokens,
      result : {[ok |-> FALSE, token |-> "base", native |-> "quote"]} ]

ApplyIsTokenNativePair ==
    /\ call.phase = "args"
    /\ call.fn = "is_token_native_pair"
    /\ call' = [call EXCEPT !.phase = "returned",
                            !.result = IsTokenNativePair(call.chain, call.base_token,
                                                         call.quote_token)]
    /\ UNCHANGED <<clientVars, wall, cache, fetch, store, sent, run, work>>

InitFilters ==
    /\ ClientUnused
    /\ call \in FilterArgs
    /\ wall = 0
    /\ cache = Unused
    /\ fetch = Unused
    /\ store = Unused
    /\ sent = <<>>
    /\ run = Unused
    /\ work = <<>>

NextFilters == ApplyIsTokenNativePair

SpecFilters == InitFilters /\ [][NextFilters]_vars

\* The token has the chain's native address, compared as the claim says:
\* without regard to case on EVM chains, exactly on the others.
HasNativeAddress(chain, token) ==
    \E a \in NATIVE_ADDR(chain) :
        IF chain \in EvmChains THEN Lower(token.address) = Lower(a)
        ELSE token.address = a

HasNativeSymbol(chain, token) ==
    \E sym \in NATIVE_SYMBOLS(chain) : Upper(token.symbol) = Upper(sym)

\* Exactly one side has the native address: ok, that side is the native one.
OneNativeAddressOriented ==
    LET b == HasNativeAddress(call.chain, call.base_token)
        q == HasNativeAddress(call.chain, call.quote_token)
    IN  /\ (q /\ ~b) => call.result = [ok |-> TRUE, token |-> "base", native |-> "quote"]
        /\ (b /\ ~q) => call.result = [ok |-> TRUE, token |-> "quote", native |-> "base"]

(***************************************************************************)
(* C20 as stated: when exactly one side has the chain's native address     *)
(* (without regard to case on EVM chains, exactly on the others),          *)
(* is_token_native_pair returns ok with the other side as token and that   *)
(* side as native, whichever position it had; when neither side has the    *)
(* native address it returns ok = false.                                   *)
(* The last part fails: without a native address on either side the        *)
(* function still answers ok when exactly one side has a native symbol.    *)
(***************************************************************************)
C20_NativePairByAddress ==
    Returned("is_token_native_pair")
    => /\ OneNativeAddressOriented
       /\ (/\ ~HasNativeAddress(call.chain, call.base_token)
           /\ ~HasNativeAddress(call.chain, call.quote_token)) => ~call.result.ok

(***************************************************************************)
(* C20 as amended: the orientation by address as above; when neither side  *)
(* has the native address, ok is true exactly when the chain has a native  *)
(* address and exactly one side has a native symbol (compared without      *)
(* regard to case), and that side is returned as native; so ok is false    *)
(* when neither side has the native address or a native symbol.            *)
(***************************************************************************)
C20_NativePairByAddressOrSymbol ==
    Returned("is_token_native_pair")
    => /\ OneNativeAddressOriented
       /\ (/\ ~HasNativeAddress(call.chain, call.base_token)
           /\ ~HasNativeAddress(call.chain, call.quote_token))
          => LET b == HasNativeSymbol(call.chain, call.base_token)
                 q == HasNativeSymbol(call.chain, call.quote_token)
             IN  /\ call.result.ok <=> (NATIVE_ADDR(call.chain) # {} /\ b # q)
                 /\ (call.result.ok /\ q) => call.result.native = "quote"
                 /\ (call.result.ok /\ b) => call.result.native = "base"

\* The native side came first, written in another case, on an EVM chain.
C20_Witness ==
    /\ Returned("is_token_native_pair")
    /\ call.chain = "ethereum"
    /\ call.base_token.address = <<"A", "b">>
    /\ ~HasNativeAddress(call.chain, call.quote_token)
    /\ call.result = [ok |-> TRUE, token |-> "quote", native |-> "base"]

(***************************************************************************)
(* SpecFetch: the OHLCV fetch functions (gecko.py, cmc.py) called for one  *)
(* (chain, pool), starting from cold caches.  An upstream answer is        *)
(*   "ok"      a usable candle list carrying a volume,                     *)
(*   "short"   fewer than two candles,                                     *)
(*   "invalid" a document that fails _validate_cmc_ohlcv_doc (CMC only),   *)
(*   "error"   an exception raised by the GET.                             *)
(* A cache maps the key of each function to (time stored, value);          *)
(* fetch.requests counts the upstream GETs per provider.                   *)
(***************************************************************************)
CacheKeys == {"49h", "cmc25", "gt25_age"}
NoEntry == [ts |-> 0 - 1, data |-> [vol |-> 0, ok |-> FALSE, source |-> "none"]]
ColdCache == [k \in CacheKeys |-> NoEntry]
GtAnswers == [kind : {"ok"}, vol : 1..MaxCandleVolume]
                \cup [kind : {"short", "error"}, vol : {0}]
CmcAnswers == [kind : {"ok"}, vol : 1..MaxCandleVolume]
                \cup [kind : {"short", "invalid", "error"}, vol : {0}]
Zero(source) == [vol |-> 0, ok |-> FALSE, source |-> source]

\* GeckoCache.get / _get_cached_cmc_ohlcv: the cache after the lookup and
\* whether it was a hit.
CacheGet(c, key, ttl, t) ==
    IF c[key] = NoEntry THEN [cache |-> c, hit |-> FALSE]
    ELSE IF t - c[key].ts < ttl THEN [cache |-> c, hit |-> TRUE]
    ELSE [cache |-> [c EXCEPT ![key] = NoEntry], hit |-> FALSE]

\* GeckoCache.set / _set_cached_cmc_ohlcv
CacheSet(c, key, value, t) == [c EXCEPT ![key] = [ts |-> t, data |-> value]]

\* What a fetch function leaves: the caches, the value returned and the
\* GETs issued.
Outcome(c, value, cmc, gt) == [cache |-> c, value |-> value, cmc |-> cmc, gt |-> gt]

\* fetch_ohlcv_49h
FetchOhlcv49h(c, ttl, t, answer) ==
    LET got == CacheGet(c, "49h", ttl, t)
        val == IF answer.kind = "ok"
               THEN [vol |-> answer.vol, ok |-> TRUE, source |-> "gt49"]
               ELSE Zero("gt49")
    IN  IF got.hit THEN Outcome(got.cache, c["49h"].data, 0, 0)
        ELSE Outcome(CacheSet(got.cache, "49h", val, t), val, 0, 1)

\* fetch_gt_ohlcv_25h_with_age
FetchGtOhlcv25hWithAge(c, ttl, t, answer) ==
    LET got == CacheGet(c, "gt25_age", ttl, t)
        val == IF answer.kind = "ok"
               THEN [vol |-> answer.vol, ok |-> TRUE, source |-> "gt25"]
               ELSE Zero("gt25")
    IN  IF got.hit THEN Outcome(got.cache, c["gt25_age"].data, 0, 0)
        ELSE Outcome(CacheSet(got.cache, "gt25_age", val, t), val, 0, 1)

\* _fallback_gt_ohlcv_25h: the value is re-tagged and not stored under the
\* CMC key.
FallbackGtOhlcv25h(c, ttl, t, answer) ==
    LET o == FetchGtOhlcv25hWithAge(c, ttl, t, answer)
    IN  Outcome(o.cache, [o.value EXCEPT !.source = "CMC->GT fallback"], 1, o.gt)

\* fetch_cmc_ohlcv_25h
FetchCmcOhlcv25h(c, ttl, t, fallback, cmc_answer, gt_answer) ==
    LET got == CacheGet(c, "cmc25", ttl, t)
        val == [vol |-> cmc_answer.vol, ok |-> TRUE, source |-> "CMC DEX"]
    IN  IF got.hit THEN Outcome(got.cache, c["cmc25"].data, 0, 0)
        ELSE IF cmc_answer.kind = "ok"
        THEN Outcome(CacheSet(got.cache, "cmc25", val, t), val, 1, 0)
        ELSE IF fallback
        THEN FallbackGtOhlcv25h(got.cache, ttl, t, gt_answer)
        ELSE Outcome(CacheSet(got.cache, "cmc25", Zero("CMC DEX"), t),
                     Zero("CMC DEX"), 1, 0)

FetchScenarios ==
    [ fn : {"fetch_ohlcv_49h"}, allow_gt_ohlcv_fallback : {FALSE},
      gecko_ttl_sec : 1..MaxTtlSec, calls : {<<>>},
      requests : {[cmc |-> 0, gt |-> 0]} ]
    \cup
    [ fn : {"fetch_cmc_ohlcv_25h"}, allow_gt_ohlcv_fallback : BOOLEAN,
      gecko_ttl_sec : 1..MaxTtlSec, calls : {<<>>},
      requests : {[cmc |-> 0, gt |-> 0]} ]

TtlTicks == fetch.gecko_ttl_sec * TicksPerSec

Called(o) ==
    /\ cache' = o.cache
    /\ fetch' = [fetch EXCEPT
           !.calls = Append(@, [t |-> wall, value |-> o.value,
                                cmc |-> o.cmc, gt |-> o.gt]),
           !.requests = [cmc |-> @.cmc + o.cmc, gt |-> @.gt + o.gt]]
    /\ UNCHANGED <<clientVars, call, wall, store, sent, run, work>>

CallFetchOhlcv49h(answer) ==
    /\ fetch.fn = "fetch_ohlcv_49h"
    /\ Len(fetch.calls) < 2
    /\ Called(FetchOhlcv49h(cache, TtlTicks, wall, answer))

CallFetchCmcOhlcv25h(cmc_answer, gt_answer) ==
    /\ fetch.fn = "fetch_cmc_ohlcv_25h"
    /\ Len(fetch.calls) < 2
    /\ Called(FetchCmcOhlcv25h(cache, TtlTicks, wall, fetch.allow_gt_ohlcv_fallback,
                               cmc_answer, gt_answer))

\* time.time() advances.
FetchTick ==
    /\ wall < MaxFetchWall
    /\ wall' = wall + 1
    /\ UNCHANGED <<clientVars, call, cache, fetch, store, sent, run, work>>

InitFetch ==
    /\ ClientUnused
    /\ call = Unused
    /\ wall = 0
    /\ cache = ColdCache
    /\ fetch \in FetchScenarios
    /\ store = Unused
    /\ sent = <<>>
    /\ run = Unused
    /\ work = <<>>

NextFetch ==
    \/ FetchTick
    \/ \E answer \in GtAnswers : CallFetchOhlcv49h(answer)
    \/ \E cmc_answer \in CmcAnswers, gt_answer \in GtAnswers :
           CallFetchCmcOhlcv25h(cmc_answer, gt_answer)

SpecFetch == InitFetch /\ [][NextFetch]_vars

\* Two calls were made, less than the TTL apart.
TwoCallsWithinTtl ==
    /\ Len(fetch.calls) = 2
    /\ fetch.calls[2].t - fetch.calls[1].t < TtlTicks

(***************************************************************************)
(* C19: for fetch_ohlcv_49h, and for fetch_cmc_ohlcv_25h with the fallback *)
(* enabled or disabled, two successive calls for the same (chain, pool)    *)
(* less than the TTL apart issue one upstream request per provider in      *)
(* total (one to the function's own provider, at most one to the fallback  *)
(* provider) and return identical values, whatever the first answer was.   *)
(* Fails with the fallback enabled: a value obtained through the fallback  *)
(* is not stored under the CMC key, so the second call asks CMC again.     *)
(***************************************************************************)
C19_SecondCallFromCache ==
    TwoCallsWithinTtl
    => /\ fetch.calls[1].value = fetch.calls[2].value
       /\ fetch.requests.cmc <= 1
       /\ fetch.requests.gt <= 1
       /\ fetch.fn = "fetch_ohlcv_49h" => fetch.requests.gt = 1
       /\ fetch.fn = "fetch_cmc_ohlcv_25h" => fetch.requests.cmc = 1

\* The same, where no fallback is involved.
FetchRepeatsWithoutFallback ==
    ~fetch.allow_gt_ohlcv_fallback => C19_SecondCallFromCache

(***************************************************************************)
(* Storage (storage.py).  The three tables, as functions; NoTs and NoPage  *)
(* stand for a missing row.  Timestamps are whole seconds: int() of the    *)
(* wall clock, or SQLite's strftime('%s','now').                           *)
(***************************************************************************)
Pools == {"p1", "p2"}
Chains == {"base", "solana"}
Sources == {"new", "trending", "dexes"}
NoTs == 0 - 1
NoPage == 0 * 1

EmptyStore ==
    [ state |-> [p \in Pools |-> NoTs],
      seen_pools |-> [k \in Chains \X Pools |-> NoTs],
      progress_cursors |-> [k \in Chains \X Sources |-> NoPage] ]

\* int(datetime.now(timezone.utc).timestamp()); strftime('%s','now')
SecOf(t) == t \div TicksPerSec

\* Storage.get_last_alert_ts / set_last_alert_ts
GetLastAlertTs(st, pool) == st.state[pool]
SetLastAlertTs(st, pool, ts) == [st EXCEPT !.state[pool] = ts]

\* Storage.mark_as_seen
MarkAsSeen(st, chain, pool, t) == [st EXCEPT !.seen_pools[<<chain, pool>>] = SecOf(t)]

\* "if last: ... if now - last_dt < timedelta(minutes=cooldown_min)"
InCooldown(last_ts, t, cooldown_min) ==
    /\ last_ts # NoTs
    /\ last_ts # 0
    /\ t - last_ts * TicksPerSec < cooldown_min * SecPerMin * TicksPerSec

(***************************************************************************)
(* SpecAlert: maybe_alert (alerts.py) invoked up to MaxInvocations times   *)
(* for one pool, one invocation after the other, the first one at the      *)
(* start (at any fraction of a second past a whole second).  Each          *)
(* invocation sees window volumes drawn from WindowStats; alert_ratio_min  *)
(* is 1.                                                                   *)
(***************************************************************************)
WindowStats == {<<0, 0>>, <<1, 0>>, <<1, 1>>, <<2, 1>>}
RatioOne == [num |-> 1, den |-> 1]

MaybeAlert(vol1h, prev48h) ==
    LET pool == "p1"
        noted == [call EXCEPT !.log = Append(@, [t |-> wall,
                      qualifying |-> ShouldAlert(vol1h, prev48h, RatioOne)])]
        seen == MarkAsSeen(store, "base", pool, wall)
    IN  /\ call.fn = "maybe_alert"
        /\ Len(call.log) < MaxInvocations
        /\ call' = noted
        /\ IF InCooldown(GetLastAlertTs(store, pool), wall, call.cooldown_min)
           THEN UNCHANGED <<store, sent>>
           ELSE IF vol1h <= 0 /\ prev48h <= 0
           THEN UNCHANGED <<store, sent>>
           ELSE IF prev48h <= 0 \/ ~ShouldAlert(vol1h, prev48h, RatioOne)
           THEN store' = seen /\ UNCHANGED sent
           ELSE /\ store' = SetLastAlertTs(seen, pool, SecOf(wall))
                /\ sent' = Append(sent, [pool |-> pool, t |-> wall])
        /\ UNCHANGED <<clientVars, wall, cache, fetch, run, work>>

\* datetime.now() advances between the invocations.
AlertTick ==
    /\ call.log # <<>>
    /\ Len(call.log) < MaxInvocations
    /\ wall < MaxAlertWallSec * TicksPerSec
    /\ wall' = wall + 1
    /\ UNCHANGED <<clientVars, call, cache, fetch, store, sent, run, work>>

InitAlert ==
    /\ ClientUnused
    /\ call \in [fn : {"maybe_alert"}, cooldown_min : 0..1, log : {<<>>}]
    /\ wall \in TicksPerSec..(2 * TicksPerSec - 1)
    /\ cache = Unused
    /\ fetch = Unused
    /\ store = EmptyStore
    /\ sent = <<>>
    /\ run = Unused
    /\ work = <<>>

NextAlert ==
    \/ AlertTick
    \/ \E ws \in WindowStats : MaybeAlert(ws[1], ws[2])

SpecAlert == InitAlert /\ [][NextAlert]_vars

CooldownTicks == call.cooldown_min * SecPerMin * TicksPerSec

\* The first two invocations qualified and were less than the cooldown apart.
TwoWithinCooldown ==
    /\ Len(call.log) >= 2
    /\ call.log[1].qualifying
    /\ call.log[2].qualifying
    /\ call.log[2].t - call.log[1].t < CooldownTicks

(***************************************************************************)
(* C15: two consecutive maybe_alert invocations for the same pool with     *)
(* qualifying volumes, less than cooldown_min minutes apart, send exactly  *)
(* one notification; a further qualifying invocation after the cooldown    *)
(* has elapsed (since that notification) sends a second one.               *)
(* Fails by less than a second: the time of the alert is stored as a whole *)
(* second, int(now), and compared with the unrounded clock.                *)
(***************************************************************************)
C15_OneAlertPerCooldown ==
    /\ (TwoWithinCooldown /\ Len(call.log) = 2) => Len(sent) = 1
    /\ (/\ TwoWithinCooldown
        /\ Len(call.log) = 3
        /\ call.log[3].qualifying
        /\ call.log[3].t - call.log[1].t >= CooldownTicks) => Len(sent) = 2

\* The same with whole seconds only: every invocation on a whole second.
OneAlertPerCooldownOnWholeSeconds ==
    (\A i \in 1..Len(call.log) : call.log[i].t % TicksPerSec = 0)
    => C15_OneAlertPerCooldown

(***************************************************************************)
(* SpecCycle: the main loop (main.py): run_once, cycle after cycle, with   *)
(* the discovery of discovery.py, the candidate selection, the probe       *)
(* workers and the purge, over one Storage.                                *)
(*                                                                         *)
(* cfg carries, beside the client's fields, the fields of Config that      *)
(* run_once reads; slug_variants is the length of the chain's list in      *)
(* cfg.cmc_chain_slugs.  A page request of the discovery either succeeds   *)
(* at the first slug variant or fails at every variant.  No 429 is         *)
(* answered, so get_cycle_penalty() is 0, and get_cycle_requests() is the  *)
(* number of GETs made (run.requests).  Every pool has a fixed liquidity   *)
(* (p1 above p2) and every candle answer a prior-window volume of 1 USD.   *)
(* The wall clock starts on a whole second; inside a cycle it advances     *)
(* by at most MaxCycleTicks ticks, between cycles by the sleep of main().  *)
(***************************************************************************)
CycleConfigs ==
    [ provider : {"cmc"}, calls_per_min : {12}, max_concurrency : {MaxConcurrencyBound},
      window : {WindowBound}, retry_after_cap : {1},
      loop_seconds : {20, 60},
      chains : {<<"base">>},
      cmc_sources_list : {<<"new", "dexes">>},
      cmc_rotate_sources : BOOLEAN,
      cmc_pages_per_chain : 0..MaxPages,
      cmc_dex_pages_per_chain : {1},
      slug_variants : {2},
      cmc_safety_budget : {0},
      allow_gt_ohlcv_fallback : {FALSE},
      min_ohlcv_probes : {1},
      max_ohlcv_probes_cap : {2},
      seen_ttl_min : {1},
      seen_ttl_sec : {20, 60},
      cooldown_min : {1},
      alert_fetch_workers : {2},
      gecko_ttl_sec : {1},
      min_prev24_usd : {1},
      alert_ratio_min : {RatioOne} ]

\* The pools a source returns when its pages are answered.
PageResults == {{"p1"}, {"p1", "p2"}}

\* total_budget
TotalBudget(c) == (c.calls_per_min * c.loop_seconds) \div SecPerMin

\* Faulty variant: with rotation on, the first source is chosen in every cycle.
ChosenSourcesNoRotation(c, cycle_idx) ==
    IF c.cmc_rotate_sources
    THEN <<c.cmc_sources_list[1]>>
    ELSE c.cmc_sources_list

\* cmc_discover_candidates: chosen_sources
ChosenSources(c, cycle_idx) ==
    IF c.cmc_rotate_sources
    THEN <<c.cmc_sources_list[(Max(0, cycle_idx - 1) % Len(c.cmc_sources_list)) + 1]>>
    ELSE c.cmc_sources_list

\* cmc_discover_candidates: limit
PageLimit(c, source) ==
    IF source = "dexes" THEN c.cmc_dex_pages_per_chain ELSE c.cmc_pages_per_chain

\* Storage.get_progress / bump_progress
GetProgress(st, chain, source) ==
    IF st.progress_cursors[<<chain, source>>] = NoPage THEN 1
    ELSE st.progress_cursors[<<chain, source>>]
BumpProgress(st, chain, source, next_page) ==
    [st EXCEPT !.progress_cursors[<<chain, source>>] = next_page]

\* Faulty variant: the cursor is set to the limit, not advanced by it.
NextPageNotAdvanced(start_page, limit) == Max(1, limit)

\* "start_page + max(1, limit)"
NextPage(start_page, limit) == start_page + Max(1, limit)

\* Storage.get_recently_seen
GetRecentlySeen(st, chain, ttl_min, t) ==
    {p \in Pools : /\ st.seen_pools[<<chain, p>>] # NoTs
                   /\ st.seen_pools[<<chain, p>>] > SecOf(t) - ttl_min * SecPerMin}

\* Storage.purge_seen_older_than
PurgeSeenOlderThan(st, ttl_sec, t) ==
    [st EXCEPT !.seen_pools =
        [k \in Chains \X Pools |->
            IF st.seen_pools[k] # NoTs /\ st.seen_pools[k] <= SecOf(t) - ttl_sec
            THEN NoTs ELSE st.seen_pools[k]]]

\* The items of one source, de-duplicated by pool id (discovery.py 468-474).
ItemsOf(chain, pools) ==
    (IF "p1" \in pools THEN <<[chain |-> chain, pool |-> "p1"]>> ELSE <<>>)
    \o (IF "p2" \in pools THEN <<[chain |-> chain, pool |-> "p2"]>> ELSE <<>>)

Liquidity(pool) == IF pool = "p1" THEN 2 ELSE 1

\* candidates.sort(key=(liquidity, tx24h), reverse=True): a stable sort.
SortByLiquidity(items) ==
    SelectSeq(items, LAMBDA m : Liquidity(m.pool) = 2)
    \o SelectSeq(items, LAMBDA m : Liquidity(m.pool) = 1)

\* candidates[: ohlcv_budget]
Take(items, n) == SubSeq(items, 1, Min(n, Len(items)))

NewRun(cycle_idx, t) ==
    [ phase |-> "discover", cycle_idx |-> cycle_idx, started |-> t, ticks |-> 0,
      next_source |-> [ch \in Chains |-> 1],
      all_items |-> [ch \in Chains |-> <<>>],
      aggregated |-> <<>>, pages_planned |-> 0, requests |-> 0,
      ohlcv_budget |-> 0, selected |-> <<>>, early |-> {},
      scheduled |-> <<>> ]

ChainsOf(c) == {c.chains[i] : i \in DOMAIN c.chains}

\* cmc_discover_candidates, one turn of its loop over the chosen sources:
\* get_progress, cmc_discover_by_source, bump_progress.  With the last
\* source the chain's future completes and run_once takes its items.
DiscoverSource(chain, ok, pools, dexes) ==
    LET chosen == ChosenSources(cfg, run.cycle_idx)
        i == run.next_source[chain]
        source == chosen[i]
        start_page == GetProgress(store, chain, source)
        limit == PageLimit(cfg, source)
        pages == IF source = "dexes" THEN dexes * Max(0, limit) ELSE Max(0, limit)
        listing == IF source = "dexes" THEN 1 ELSE 0
        gets == listing + (IF ok THEN pages ELSE pages * cfg.slug_variants)
        items == IF ok /\ pages > 0 THEN ItemsOf(chain, pools) ELSE <<>>
        all_items == run.all_items[chain] \o items
        last_one == i = Len(chosen)
    IN  /\ run.phase = "discover"
        /\ chain \in ChainsOf(cfg)
        /\ i <= Len(chosen)
        /\ source = "dexes" \/ dexes = 0
        /\ IF ok /\ pages > 0 THEN pools \in PageResults ELSE pools = {}
        /\ store' = BumpProgress(store, chain, source, NextPage(start_page, limit))
        /\ run' = [run EXCEPT
               !.next_source[chain] = i + 1,
               !.all_items[chain] = all_items,
               !.aggregated = IF last_one THEN @ \o all_items ELSE @,
               !.pages_planned = @ + limit,
               !.requests = @ + gets,
               !.scheduled = Append(@, [chain |-> chain, source |-> source,
                                        limit |-> limit, ok |-> ok])]
        /\ UNCHANGED <<clientVars, call, wall, cache, fetch, sent, work>>

\* run_once from the budget to the selection (main.py 180-219).
Select ==
    LET b == [ total_budget |-> TotalBudget(cfg),
               discovery_cost |-> run.pages_planned,
               spent_so_far |-> run.requests,
               cmc_safety_budget |-> cfg.cmc_safety_budget,
               allow_gt_ohlcv_fallback |-> cfg.allow_gt_ohlcv_fallback,
               min_ohlcv_probes |-> cfg.min_ohlcv_probes,
               max_ohlcv_probes_cap |-> cfg.max_ohlcv_probes_cap ]
        ohlcv_budget == OhlcvBudget(b)
        candidates == SelectSeq(run.aggregated,
                         LAMBDA m : m.pool \notin
                             GetRecentlySeen(store, m.chain, cfg.seen_ttl_min, wall))
        selected == IF ohlcv_budget > 0
                    THEN Take(SortByLiquidity(candidates), ohlcv_budget) ELSE <<>>
        ttl == cfg.seen_ttl_min * SecPerMin * TicksPerSec
    IN  /\ run.phase = "discover"
        /\ \A ch \in ChainsOf(cfg) :
               run.next_source[ch] > Len(ChosenSources(cfg, run.cycle_idx))
        /\ run' = [run EXCEPT
               !.phase = "probe",
               !.ohlcv_budget = ohlcv_budget,
               !.selected = selected,
               !.early = {k \in Chains \X Pools :
                            /\ \E j \in DOMAIN selected :
                                   <<selected[j].chain, selected[j].pool>> = k
                            /\ fetch.marked[k] # NoTs
                            /\ wall - fetch.marked[k] < ttl}]
        /\ work' = [j \in DOMAIN selected |->
                       [pc |-> "queued", chain |-> selected[j].chain,
                        pool |-> selected[j].pool, alert |-> FALSE]]
        /\ UNCHANGED <<clientVars, call, wall, cache, fetch, store, sent>>

Running == {j \in DOMAIN work : work[j].pc \in {"fetch", "persist"}}

\* _work, the cooldown test (main.py 248-253), on a free thread of the pool.
WorkCheck(j) ==
    /\ run.phase = "probe"
    /\ j \in DOMAIN work
    /\ work[j].pc = "queued"
    /\ \A h \in 1..(j - 1) : work[h].pc # "queued"
    /\ Cardinality(Running) < Max(1, Min(Len(run.selected), cfg.alert_fetch_workers))
    /\ work' = [work EXCEPT ![j].pc =
                   IF InCooldown(GetLastAlertTs(store, work[j].pool), wall, cfg.cooldown_min)
                   THEN "done" ELSE "fetch"]
    /\ UNCHANGED <<clientVars, call, wall, cache, fetch, store, sent, run>>

\* _work from the fetch to notifier.send (main.py 255-265).
WorkFetch(j, cmc_answer) ==
    LET k == <<work[j].chain, work[j].pool>>
        o == FetchCmcOhlcv25h(cache[k], cfg.gecko_ttl_sec * TicksPerSec, wall,
                              cfg.allow_gt_ohlcv_fallback, cmc_answer,
                              [kind |-> "error", vol |-> 0])
        alert == ShouldAlertRevivalCmc(o.value.vol, 1, o.value.ok,
                                       cfg.min_prev24_usd, cfg.alert_ratio_min)
    IN  /\ run.phase = "probe"
        /\ j \in DOMAIN work
        /\ work[j].pc = "fetch"
        /\ cache' = [cache EXCEPT ![k] = o.cache]
        /\ run' = [run EXCEPT !.requests = @ + o.cmc]
        /\ store' = MarkAsSeen(store, work[j].chain, work[j].pool, wall)
        /\ fetch' = [fetch EXCEPT !.marked[k] = wall]
        /\ sent' = IF alert THEN Append(sent, [pool |-> work[j].pool, t |-> wall])
                   ELSE sent
        /\ work' = [work EXCEPT ![j].pc = IF alert THEN "persist" ELSE "done",
                                ![j].alert = alert]
        /\ UNCHANGED <<clientVars, call, wall>>

\* _work, set_last_alert_ts (main.py 266-268).
WorkPersist(j) ==
    /\ run.phase = "probe"
    /\ j \in DOMAIN work
    /\ work[j].pc = "persist"
    /\ store' = SetLastAlertTs(store, work[j].pool, SecOf(wall))
    /\ work' = [work EXCEPT ![j].pc = "done"]
    /\ UNCHANGED <<clientVars, call, wall, cache, fetch, sent, run>>

\* run_once, the purge of the seen pools and the end of the cycle.
Purge ==
    /\ run.phase = "probe"
    /\ \A j \in DOMAIN work : work[j].pc = "done"
    /\ store' = PurgeSeenOlderThan(store, cfg.seen_ttl_sec, wall)
    /\ run' = [run EXCEPT !.phase = "sleep"]
    /\ UNCHANGED <<clientVars, call, wall, cache, fetch, sent, work>>

\* main(): sleep for the rest of loop_seconds and run the next cycle.
NextCycle ==
    LET elapsed == wall - run.started
        sleep_for == Max(0, cfg.loop_seconds * TicksPerSec - elapsed)
    IN  /\ run.phase = "sleep"
        /\ run.cycle_idx < MaxCycles
        /\ wall' = wall + sleep_for
        /\ run' = NewRun(run.cycle_idx + 1, wall + sleep_for)
        /\ work' = <<>>
        /\ UNCHANGED <<clientVars, call, cache, fetch, store, sent>>

\* The wall clock advances while the cycle runs.
CycleTick ==
    /\ run.phase \in {"discover", "probe"}
    /\ run.ticks < MaxCycleTicks
    /\ wall' = wall + 1
    /\ run' = [run EXCEPT !.ticks = @ + 1]
    /\ UNCHANGED <<clientVars, call, cache, fetch, store, sent, work>>

CycleAnswers ==
    {[kind |-> "ok", vol |-> 2], [kind |-> "error", vol |-> 0]}

InitCycle ==
    /\ cfg \in CycleConfigs
    /\ limiter = NewLimiter(cfg, 0)
    /\ now = 0
    /\ last = NoCall
    /\ round = IdleRound
    /\ pc = [t \in Threads |-> "gate"]
    /\ loc = [t \in Threads |-> NoLoc]
    /\ cycle = NoCycle
    /\ hist = NoHist
    /\ budget = NoBudget
    /\ call = Unused
    /\ wall = TicksPerSec
    /\ cache = [k \in Chains \X Pools |-> ColdCache]
    /\ fetch = [marked |-> [k \in Chains \X Pools |-> NoTs]]
    /\ store = EmptyStore
    /\ sent = <<>>
    /\ run = NewRun(1, wall)
    /\ work = <<>>

NextCycleStep ==
    \/ \E chain \in Chains, ok \in BOOLEAN, pools \in SUBSET Pools, dexes \in 0..MaxDexes :
           DiscoverSource(chain, ok, pools, dexes)
    \/ Select
    \/ \E j \in 1..MaxProbeConfig : WorkCheck(j)
    \/ \E j \in 1..MaxProbeConfig, cmc_answer \in CycleAnswers : WorkFetch(j, cmc_answer)
    \/ \E j \in 1..MaxProbeConfig : WorkPersist(j)
    \/ Purge
    \/ NextCycle
    \/ CycleTick

SpecCycle == InitCycle /\ [][NextCycleStep]_vars

\* The step is a turn of cmc_discover_candidates for one (chain, source).
Scheduled == Len(run'.scheduled) = Len(run.scheduled) + 1
LastScheduled == run'.scheduled[Len(run'.scheduled)]

CursorNeverDecreases ==
    \A ch \in Chains, src \in Sources :
        GetProgress(store', ch, src) >= GetProgress(store, ch, src)

(***************************************************************************)
(* C12: for each (chain, source) the persisted next_page never decreases   *)
(* across cycles, and a cycle that schedules the source with page limit L  *)
(* leaves next_page equal to its previous value plus L, whether the page   *)
(* requests succeeded or failed.                                           *)
(***************************************************************************)
C12_CursorAdvancesByLimit ==
    [][/\ CursorNeverDecreases
       /\ Scheduled =>
            GetProgress(store', LastScheduled.chain, LastScheduled.source)
              = GetProgress(store, LastScheduled.chain, LastScheduled.source)
                + LastScheduled.limit]_vars

\* C12 as the code has it: the cursor never decreases, and a scheduled
\* source's cursor advances by max(1, L), pages answered or not.
C12_CursorAdvancesByAtLeastOne ==
    [][/\ CursorNeverDecreases
       /\ Scheduled =>
            GetProgress(store', LastScheduled.chain, LastScheduled.source)
              = GetProgress(store, LastScheduled.chain, LastScheduled.source)
                + Max(1, LastScheduled.limit)]_vars

\* In its second cycle the loop has scheduled "new" with a limit of one
\* page, the page requests failed, and the cursor stands at 3.
C12_Witness ==
    /\ run.phase = "discover"
    /\ run.cycle_idx = 2
    /\ Len(run.scheduled) = 1
    /\ run.scheduled[1].source = "new"
    /\ run.scheduled[1].limit = 1
    /\ ~run.scheduled[1].ok
    /\ store.progress_cursors[<<run.scheduled[1].chain, "new">>] = 3

(***************************************************************************)
(* C11: in every cycle the number of HTTP requests issued to the primary   *)
(* provider, discovery requests plus OHLCV probe requests, does not exceed *)
(* total_budget = floor(cmc_calls_per_min * loop_seconds / 60).            *)
(***************************************************************************)
C11_RequestsWithinTotalBudget == run.requests <= TotalBudget(cfg)

\* The bound holds in the cycles whose discovery requests were all answered
\* at the first slug variant and that did not schedule the DEX source.
RequestsWithinBudgetWhenAnswered ==
    (\A i \in DOMAIN run.scheduled :
         run.scheduled[i].ok /\ run.scheduled[i].source # "dexes")
        => run.requests <= TotalBudget(cfg)

SamePool(a, b) == a.chain = b.chain /\ a.pool = b.pool

(***************************************************************************)
(* C13: the candidates selected for probing in a cycle never contain two   *)
(* entries with the same (chain, pool), also when the same pool is         *)
(* returned by several sources or pages during that cycle's discovery.     *)
(***************************************************************************)
C13_SelectedHasNoDuplicates ==
    \A i, j \in DOMAIN run.selected :
        i # j => ~SamePool(run.selected[i], run.selected[j])

\* With one source per cycle (cmc_rotate_sources) the selection has no duplicates.
NoDuplicatesWhenRotating ==
    cfg.cmc_rotate_sources => C13_SelectedHasNoDuplicates

(***************************************************************************)
(* C14: once a pool has been marked seen for a chain, it does not appear   *)
(* in the selected set of any later cycle until the seen TTL has elapsed   *)
(* since the marking, even if discovery returns it in every cycle between. *)
(* run.early holds the selected pools marked less than seen_ttl_min        *)
(* minutes before the selection.                                           *)
(***************************************************************************)
C14_SeenPoolNotSelectedBeforeTtl == run.early = {}

\* When the purge uses the same TTL as the selection (seen_ttl_sec =
\* seen_ttl_min * 60), a selected pool was marked at most one second less
\* than the TTL before.
SeenPoolNotSelectedWithinTtlLessOneSecond ==
    (cfg.seen_ttl_sec = cfg.seen_ttl_min * SecPerMin /\ run.phase = "probe")
        => \A j \in DOMAIN run.selected :
               LET k == <<run.selected[j].chain, run.selected[j].pool>>
               IN  \/ fetch.marked[k] = NoTs
                   \/ fetch.marked[k] >= run.started
                   \/ run.started - fetch.marked[k]
                        > (cfg.seen_ttl_min * SecPerMin - 1) * TicksPerSec

(***************************************************************************)
(* C16: under every interleaving of the probe workers of a cycle and       *)
(* across cycles, any two notifications sent for the same pool are at      *)
(* least cooldown_min minutes apart; in particular one cycle never sends   *)
(* two notifications for the same pool.                                    *)
(***************************************************************************)
C16_NotificationsCooldownApart ==
    \A i, j \in DOMAIN sent :
        (i < j /\ sent[i].pool = sent[j].pool)
            => sent[j].t - sent[i].t >= cfg.cooldown_min * SecPerMin * TicksPerSec

\* With one source per cycle, so no duplicate in the selection, two
\* notifications for a pool are more than cooldown_min minutes less one
\* second apart, less the time a probe takes.
NotificationsApartWhenRotating ==
    cfg.cmc_rotate_sources
        => \A i, j \in DOMAIN sent :
               (i < j /\ sent[i].pool = sent[j].pool)
                   => sent[j].t - sent[i].t
                        > (cfg.cooldown_min * SecPerMin - 1) * TicksPerSec - MaxCycleTicks

(***************************************************************************)
(* C28: every record_status call made with a full window whose 429 ratio   *)
(* exceeds backoff_threshold sets effective_rps to                         *)
(* max(min_rps, effective_rps * (1 - decrease_step)), so that under        *)
(* sustained 429 responses effective_rps keeps falling until it equals     *)
(* min_rps.  (Rates are compared multiplied by 100.)                       *)
(***************************************************************************)
C28_DecreaseByStepOfCurrentRate ==
    [][ (/\ IsRecordStatusStep
         /\ Len(limiter'.codes) = cfg.window
         /\ RatioAbove(limiter'.codes, BackoffThresholdPct))
        => 100 * limiter'.effective_rps
             = Max(100 * MinRps(cfg),
                   limiter.effective_rps * (100 - DecreaseStepPct)) ]_vars

\* What record_status does on such a call: the rate becomes the lower of
\* the current rate and base_rps * (1 - decrease_step), not below min_rps.
DecreaseToStepBelowBase ==
    [][ (/\ IsRecordStatusStep
         /\ Len(limiter'.codes) = cfg.window
         /\ RatioAbove(limiter'.codes, BackoffThresholdPct))
        => limiter'.effective_rps
             = Max(MinRps(cfg),
                   Min(limiter.effective_rps,
                       Max(MinRps(cfg),
                           (BaseRps(cfg) * (100 - DecreaseStepPct)) \div 100))) ]_vars

(***************************************************************************)
(* SpecAdaptive: the adaptive rate of one limiter over time.  Statuses are *)
(* recorded while the clock advances; hist keeps when effective_rps last   *)
(* changed, the time between its last two changes, and the parity of the   *)
(* number of statuses recorded.                                            *)
(***************************************************************************)
NoChange == [changed_at |-> Absent, gap |-> Absent, parity |-> 0]

\* record_status(status) at time now
RecordStatusAt(status) ==
    LET l == RecordStatus(limiter, cfg, status)
        changed == l.effective_rps # limiter.effective_rps
    IN  /\ limiter' = l
        /\ last' = [NoCall EXCEPT !.op = "record_status", !.status = status]
        /\ hist' = [changed_at |-> IF changed THEN now ELSE hist.changed_at,
                    gap |-> IF changed /\ hist.changed_at # Absent
                            THEN now - hist.changed_at ELSE hist.gap,
                    parity |-> 1 - hist.parity]
        /\ UNCHANGED <<cfg, now, round, pc, loc, cycle, budget, botVars>>

InitAdaptive ==
    /\ BotUnused
    /\ cfg \in Configs({"cmc"}, LimiterCallsPerMin, {1}, (WindowBound - 1)..WindowBound)
    /\ limiter = NewLimiter(cfg, 0)
    /\ now = 0
    /\ last = NoCall
    /\ round = IdleRound
    /\ pc = [t \in Threads |-> "gate"]
    /\ loc = [t \in Threads |-> NoLoc]
    /\ cycle = NoCycle
    /\ hist = NoChange
    /\ budget = NoBudget

NextAdaptive ==
    \/ Tick
    \/ \E status \in {200, 429} : RecordStatusAt(status)

SpecAdaptive == InitAdaptive /\ [][NextAdaptive]_vars

\* Statuses keep being recorded.
SpecAdaptiveFair ==
    SpecAdaptive /\ WF_vars(\E status \in {200, 429} : RecordStatusAt(status))

\* 1.5 seconds, in ticks
AdjustIntervalTicks == (3 * TicksPerSec) \div 2

(***************************************************************************)
(* C30: two successive changes of a limiter's effective rate are never     *)
(* less than about 1.5 seconds apart, however many statuses are recorded   *)
(* in between.                                                             *)
(***************************************************************************)
C30_RateChangesSpaced ==
    hist.gap = Absent \/ hist.gap >= AdjustIntervalTicks

\* The window is full and its 429 ratio is at or below recover_threshold.
QuietWindow ==
    /\ Len(limiter.codes) = cfg.window
    /\ ~RatioAbove(limiter.codes, RecoverThresholdPct)

(***************************************************************************)
(* C29: from any reachable state with effective_rps < base_rps, if every   *)
(* later full-window 429 ratio is at or below recover_threshold and        *)
(* statuses keep being recorded, effective_rps eventually equals base_rps  *)
(* and stays there.                                                        *)
(***************************************************************************)
C29_RecoversToBase ==
    []((limiter.effective_rps < BaseRps(cfg) /\ []QuietWindow)
          => <>[](limiter.effective_rps = BaseRps(cfg)))

\* The rate is back at base_rps after it had been lowered and raised, the
\* window being full of statuses other than 429.
C29_Witness ==
    /\ last.op = "record_status"
    /\ hist.gap # Absent
    /\ QuietWindow
    /\ limiter.effective_rps = BaseRps(cfg)
    /\ MinRps(cfg) < BaseRps(cfg)

(***************************************************************************)
(* SpecClientCycles: the calls of SpecHttp, cycle after cycle as run_once  *)
(* runs them.  run_once begins with "http = HttpClient(cfg)" and           *)
(* "http.reset_cycle_metrics()": every cycle has a client of its own,      *)
(* whose limiters ApiRateLimiter.__init__ has just built.                  *)
(***************************************************************************)
StartCycle ==
    /\ AllDone
    /\ limiter' = NewLimiter(cfg, now)
    /\ cycle' = NoCycle
    /\ hist' = NoHist
    /\ pc' = [t \in Threads |-> "gate"]
    /\ loc' = [t \in Threads |-> NoLoc]
    /\ UNCHANGED <<cfg, now, last, round, budget, botVars>>

NextClientCycles ==
    \/ Tick
    \/ StartCycle
    \/ \E t \in Threads :
         \/ SemAcquire(t)
         \/ TakeToken(t)
         \/ Throttled(t)
         \/ GetRaises(t)
         \/ \E status \in Statuses, retry \in RetryAfterHeaders :
              GetReturns(t, status, retry)
         \/ Record(t)
         \/ Load429(t)
         \/ Store429(t)
         \/ RetrySlept(t)
         \/ LoadPenalty(t)
         \/ StorePenalty(t)
         \/ Release(t)
         \/ LoadRequests(t)
         \/ StoreRequests(t)

SpecClientCycles == InitHttp /\ [][NextClientCycles]_vars

\* The step ends a cycle and starts the next one.
StartsCycle ==
    /\ AllDone
    /\ \A t \in Threads : pc'[t] = "gate"

(***************************************************************************)
(* C27: the limiter state of a provider (effective_rps, tokens, status     *)
(* window) at the start of cycle k+1 is the state it had at the end of     *)
(* cycle k: starting a cycle resets only the per-cycle counters (requests  *)
(* issued, penalty seconds, 429 count) and leaves the limiter unchanged.   *)
(***************************************************************************)
C27_CycleStartKeepsLimiter ==
    [][StartsCycle => /\ limiter' = limiter
                      /\ cycle' = NoCycle]_vars

\* Starting a cycle resets the per-cycle counters.
CycleStartResetsCounters ==
    [][StartsCycle => cycle' = NoCycle]_vars

(***************************************************************************)
(* SpecDiscoverPages: one call of cmc_discover_by_source for a source of   *)
(* the "new" kind: page_limit pages, each fetched by                       *)
(* _fetch_page_with_fallback, which tries the chain's slug variants in     *)
(* turn.  The answer to a request is a document that passes                *)
(* _validate_cmc_pairs_doc (with the pools that pass the filters), a       *)
(* document that fails it, or an exception of cmc_get_json.  run keeps the *)
(* call's locals and, per page, what was answered and what was logged.     *)
(***************************************************************************)
PageAnswers ==
    [kind : {"valid"}, pools : {{}} \cup PageResults]
    \cup {[kind |-> "invalid", pools |-> {}], [kind |-> "raises", pools |-> {}]}

NewPages(page_limit, variants) ==
    [ phase |-> "paging", page_limit |-> page_limit, variants |-> variants,
      page |-> 1, variant |-> 1,
      items |-> [p \in 1..page_limit |-> {}],
      validate_logged |-> [p \in 1..page_limit |-> 0],
      answered |-> [p \in 1..page_limit |-> <<>>],
      pages_done |-> 0, requests |-> 0, result |-> <<>> ]

\* Faulty variant: an unexpected schema ends the page at once.
VariantAfterInvalidGivesUp(variant, variants) == variants + 1

\* "continue": the next slug variant is tried.
VariantAfterInvalid(variant, variants) == variant + 1

\* One turn of the loop over cmc_chain_variants in _fetch_page_with_fallback.
FetchPageVariant(answer) ==
    LET p == run.page
        next_variant == IF answer.kind = "valid" THEN run.variants + 1
                        ELSE IF answer.kind = "invalid"
                        THEN VariantAfterInvalid(run.variant, run.variants)
                        ELSE run.variant + 1
        page_over == next_variant > run.variants
    IN  /\ run.phase = "paging"
        /\ p <= run.page_limit
        /\ run' = [run EXCEPT
               !.requests = @ + 1,
               !.items[p] = IF answer.kind = "valid" THEN answer.pools ELSE @,
               !.validate_logged[p] = IF answer.kind = "invalid" THEN @ + 1 ELSE @,
               !.answered[p] = Append(@, answer),
               !.pages_done = IF page_over THEN @ + 1 ELSE @,
               !.page = IF page_over THEN p + 1 ELSE p,
               !.variant = IF page_over THEN 1 ELSE next_variant]
        /\ UNCHANGED <<clientVars, call, wall, cache, fetch, store, sent, work>>

\* The end of cmc_discover_by_source: sort, de-duplicate, return.
ReturnItems ==
    /\ run.phase = "paging"
    /\ run.page > run.page_limit
    /\ run' = [run EXCEPT
           !.phase = "returned",
           !.result = ItemsOf("base", UNION {run.items[p] : p \in 1..run.page_limit})]
    /\ UNCHANGED <<clientVars, call, wall, cache, fetch, store, sent, work>>

InitDiscoverPages ==
    /\ ClientUnused
    /\ call = Unused
    /\ wall = 0
    /\ cache = Unused
    /\ fetch = Unused
    /\ store = Unused
    /\ sent = <<>>
    /\ \E page_limit \in 0..(MaxPages + 1), variants \in 1..MaxSlugVariants :
           run = NewPages(page_limit, variants)
    /\ work = <<>>

NextDiscoverPages ==
    \/ \E answer \in PageAnswers : FetchPageVariant(answer)
    \/ ReturnItems

SpecDiscoverPages == InitDiscoverPages /\ [][NextDiscoverPages]_vars

(***************************************************************************)
(* C21: a discovery page whose response fails shape validation yields zero *)
(* candidates for that page, is logged as exactly one validation error,    *)
(* and does not raise out of cmc_discover_by_source: the remaining pages   *)
(* of that source are still processed.                                     *)
(***************************************************************************)
\* The responses to the requests made for page p that failed the validation.
InvalidResponses(p) ==
    {i \in DOMAIN run.answered[p] : run.answered[p][i].kind = "invalid"}

After429 ==
    { t \in Threads :
        /\ loc[t].status = 429
        /\ pc[t] \in {"release", "load_requests", "store_requests"} }

(***************************************************************************)
(* C23: a gt_get_json / cmc_get_json call that receives a 429 response     *)
(* does not fail to its caller: the 429 is recorded in the limiter's       *)
(* status window and in the penalty accounting, and the caller sees no     *)
(* exception.                                                              *)
(***************************************************************************)
C23_NoExceptionOn429 ==
    \A t \in After429 : loc[t].result = "returned"

\* The 429 is in the limiter's window when record_status has returned.
Recorded429 ==
    \A t \in Threads :
        pc[t] = "load_429"
            => \E i \in DOMAIN limiter.codes : limiter.codes[i] = 429

\* Every call that received a 429 ends with the HTTPError of raise_for_status.
RaisesOn429 ==
    \A t \in After429 : loc[t].result = "http_error"

(***************************************************************************)
(* SpecGetJson: what gt_get_json / cmc_get_json hand to their caller for   *)
(* a response, by its status and its body:                                 *)
(*     r.raise_for_status()                                                *)
(*     try: return r.json() or {}                                          *)
(*     except Exception: return {}                                         *)
(* A body is text that is not JSON ("unparsable"), a JSON value that       *)
(* Python takes for false ("falsy": null, 0, "", [], {}), an object with a *)
(* data field, an object without one, a non-empty array, or a scalar.      *)
(***************************************************************************)
ResponseStatuses == {200, 201, 404, 429, 500}
ResponseBodies ==
    {"unparsable", "falsy", "object_with_data", "object_without_data",
     "array", "scalar"}

\* Response.raise_for_status(): an HTTPError for 400 <= status < 600.
RaiseForStatus(status) == status >= 4 * 100 /\ status < 6 * 100

\* r.json() or {}, and {} when r.json() raises.
JsonOrEmpty(body) ==
    IF body \in {"unparsable", "falsy"} THEN "empty_object" ELSE body

GetJsonResult(status, body) ==
    IF RaiseForStatus(status)
    THEN [raised |-> TRUE, doc |-> "none"]
    ELSE [raised |-> FALSE, doc |-> JsonOrEmpty(body)]

GetJsonArgs ==
    [ phase : {"args"}, fn : {"gt_get_json", "cmc_get_json"},
      status : ResponseStatuses, body : ResponseBodies,
      raised : {FALSE}, doc : {"none"} ]

ApplyGetJson ==
    /\ call.phase = "args"
    /\ LET r == GetJsonResult(call.status, call.body) IN
       call' = [call EXCEPT !.phase = "returned", !.raised = r.raised, !.doc = r.doc]
    /\ UNCHANGED <<clientVars, wall, cache, fetch, store, sent, run, work>>

InitGetJson ==
    /\ ClientUnused
    /\ call \in GetJsonArgs
    /\ wall = 0
    /\ cache = Unused
    /\ fetch = Unused
    /\ store = Unused
    /\ sent = <<>>
    /\ run = Unused
    /\ work = <<>>

NextGetJson == ApplyGetJson

SpecGetJson == InitGetJson /\ [][NextGetJson]_vars

Is2xx(status) == status >= 2 * 100 /\ status < 3 * 100

(***************************************************************************)
(* C22: cmc_get_json / gt_get_json never return a document to the caller   *)
(* when the 2xx response body cannot be parsed as JSON or is not an object *)
(* with a data field: in those cases the call fails with an error instead  *)
(* of returning a value.                                                   *)
(***************************************************************************)
C22_MalformedBodyFails ==
    (/\ call.phase = "returned"
     /\ Is2xx(call.status)
     /\ call.body # "object_with_data")
        => call.raised

\* What the calls do instead: a 2xx response never fails; its body comes
\* back as parsed, and as the empty object when it is not JSON or is falsy.
MalformedBodyReturned ==
    (call.phase = "returned" /\ Is2xx(call.status))
        => /\ ~call.raised
           /\ call.doc = (IF call.body \in {"unparsable", "falsy"}
                          THEN "empty_object" ELSE call.body)

(***************************************************************************)
(* SpecMain: the loop of main() and the error paths of run_once.           *)
(*                                                                         *)
(* run_once is followed through the places where an exception can leave    *)
(* it or is caught in it: the per-chain discovery futures (try/except      *)
(* around fut.result()), get_recently_seen (no handler), the per-pool      *)
(* alert futures (try/except around fut.result()), purge_seen_older_than   *)
(* (no handler).  main() calls run_once with no handler, so an exception   *)
(* that leaves run_once leaves main().  The probe budget and the seen      *)
(* cache, which SpecCycle computes, are inputs here: the selection is any  *)
(* subset of the aggregated candidates.                                    *)
(***************************************************************************)
MaxCyclesConfig == 2
MaxLoopCycles == MaxCyclesConfig + 1

\* What a chain's cmc_discover_candidates future ends with: its items, or
\* an exception (from get_progress / bump_progress, or from anything else
\* that is not caught inside it, such as _normalize_cmc_chain).
DiscoveryOutcomes ==
    [kind : {"items"}, pools : SUBSET {"p1"}, cause : {"none"}]
        \cup [kind : {"raises"}, pools : {{}}, cause : {"cursor", "chain_slug"}]

\* What a pool's _work future ends with.
WorkOutcomes == {"ok", "get_last_alert_ts", "mark_as_seen", "set_last_alert_ts"}

NewMain(max_cycles, once) ==
    [ phase |-> "loop", max_cycles |-> max_cycles, once |-> once,
      cycle_idx |-> 0, cycles_done |-> 0,
      pending |-> {}, failed |-> {}, returned |-> [ch \in Chains |-> {}],
      aggregated |-> {}, selected |-> {}, to_probe |-> {}, probed |-> {},
      raised |-> {}, error |-> "none" ]

\* while True: cycle_idx += 1; run_once(cfg, cycle_idx=cycle_idx), up to the
\* submission of the discovery futures.  With --once: run_once(cycle_idx=0).
MainRunOnce ==
    /\ run.phase = "loop"
    /\ run.cycle_idx < MaxLoopCycles
    /\ run' = [run EXCEPT
                 !.phase = "discover",
                 !.cycle_idx = IF run.once THEN 0 * 1 ELSE @ + 1,
                 !.pending = Chains, !.failed = {},
                 !.returned = [ch \in Chains |-> {}],
                 !.aggregated = {}, !.selected = {}, !.to_probe = {},
                 !.probed = {}, !.raised = {}]
    /\ UNCHANGED <<clientVars, call, wall, cache, fetch, store, sent, work>>

\* A mutant of DiscoveryRaised: the exception of the future leaves run_once.
DiscoveryRaisedPropagates(r, chain, cause) ==
    [r EXCEPT !.phase = "crashed", !.error = "discovery",
              !.pending = @ \ {chain}, !.raised = @ \cup {cause}]

\* except Exception as e: print(f"[{chain_name}] discovery error: {e}")
DiscoveryRaised(r, chain, cause) ==
    [r EXCEPT !.pending = @ \ {chain}, !.failed = @ \cup {chain},
              !.raised = @ \cup {cause}]

\* for fut in as_completed(futures): try: items, stats = fut.result();
\* aggregated.extend(items) / except Exception: print(...)
DiscoveryFuture(chain, outcome) ==
    /\ run.phase = "discover"
    /\ chain \in run.pending
    /\ run' = IF outcome.kind = "raises"
              THEN DiscoveryRaised(run, chain, outcome.cause)
              ELSE [run EXCEPT
                      !.pending = @ \ {chain},
                      !.returned[chain] = outcome.pools,
                      !.aggregated = @ \cup ({chain} \X outcome.pools)]
    /\ UNCHANGED <<clientVars, call, wall, cache, fetch, store, sent, work>>

\* Budget computation, get_recently_seen for every chain (outside any try),
\* sort and selection, submission of the alert futures.
RecentlySeen(ok, selected) ==
    /\ run.phase = "discover"
    /\ run.pending = {}
    /\ selected \subseteq run.aggregated
    /\ run' = IF ok
              THEN [run EXCEPT !.phase = "probe", !.selected = selected,
                               !.to_probe = selected]
              ELSE [run EXCEPT !.phase = "crashed",
                               !.error = "get_recently_seen",
                               !.raised = @ \cup {"get_recently_seen"}]
    /\ UNCHANGED <<clientVars, call, wall, cache, fetch, store, sent, work>>

\* for fut in as_completed(futures): try: res = fut.result() ...
\* except Exception as e: print(f"[alert] {pid} error: {e}")
AlertFuture(item, outcome) ==
    /\ run.phase = "probe"
    /\ item \in run.to_probe
    /\ run' = [run EXCEPT
                 !.to_probe = @ \ {item},
                 !.probed = IF outcome = "ok" THEN @ \cup {item} ELSE @,
                 !.raised = IF outcome = "ok" THEN @ ELSE @ \cup {outcome}]
    /\ UNCHANGED <<clientVars, call, wall, cache, fetch, store, sent, work>>

\* purge_seen_older_than (outside any try), the summaries, return.
PurgeSeen(ok) ==
    /\ run.phase = "probe"
    /\ run.to_probe = {}
    /\ run' = IF ok
              THEN [run EXCEPT !.phase = "sleep", !.cycles_done = @ + 1]
              ELSE [run EXCEPT !.phase = "crashed",
                               !.error = "purge_seen_older_than",
                               !.raised = @ \cup {"purge_seen_older_than"}]
    /\ UNCHANGED <<clientVars, call, wall, cache, fetch, store, sent, work>>

\* A mutant of LoopEnds: the loop stops one cycle late.
LoopEndsLate(max_cycles, cycle_idx) ==
    max_cycles # 0 /\ cycle_idx > max_cycles

\* if cfg.max_cycles and cycle_idx >= cfg.max_cycles: break
LoopEnds(max_cycles, cycle_idx) ==
    max_cycles # 0 /\ cycle_idx >= max_cycles

\* if args.once: run_once(...); return.  Otherwise time.sleep(sleep_for),
\* then the max_cycles test.
SleepAndCheck ==
    /\ run.phase = "sleep"
    /\ run' = [run EXCEPT !.phase =
                 IF run.once THEN "returned"
                 ELSE IF LoopEnds(run.max_cycles, run.cycle_idx) THEN "terminated"
                 ELSE "loop"]
    /\ UNCHANGED <<clientVars, call, wall, cache, fetch, store, sent, work>>

InitMain ==
    /\ ClientUnused
    /\ call = Unused
    /\ wall = 0
    /\ cache = Unused
    /\ fetch = Unused
    /\ store = Unused
    /\ sent = <<>>
    /\ \E max_cycles \in 0..MaxCyclesConfig, once \in BOOLEAN :
           run = NewMain(max_cycles, once)
    /\ work = <<>>

NextMain ==
    \/ MainRunOnce
    \/ \E chain \in Chains, outcome \in DiscoveryOutcomes :
           DiscoveryFuture(chain, outcome)
    \/ \E ok \in BOOLEAN, selected \in SUBSET (Chains \X Pools) :
           RecentlySeen(ok, selected)
    \/ \E item \in Chains \X Pools, outcome \in WorkOutcomes :
           AlertFuture(item, outcome)
    \/ \E ok \in BOOLEAN : PurgeSeen(ok)
    \/ SleepAndCheck

SpecMain == InitMain /\ [][NextMain]_vars

\* The loop goes on as long as its steps are taken: a started cycle is run
\* to its end, and main() goes from one cycle to the next.
SpecMainFair == SpecMain /\ WF_vars(NextMain)

\* The candidates of the chains whose future returned.
ReturnedCandidates ==
    UNION { {ch} \X run.returned[ch] : ch \in Chains \ (run.failed \cup run.pending) }

(***************************************************************************)
(* C24: if the discovery future of one chain raises, run_once still goes   *)
(* on to budget computation, selection and probing with the candidates of  *)
(* the other chains: the failed chain contributes zero candidates and the  *)
(* cycle is not aborted by that failure.                                   *)
(***************************************************************************)
C24_FailedChainDoesNotAbortCycle ==
    /\ run.error # "discovery"
    /\ run.phase \in {"discover", "probe", "sleep"} =>
           /\ run.aggregated = ReturnedCandidates
           /\ \A item \in run.aggregated : item[1] \notin run.failed
    /\ run.phase \in {"probe", "sleep"} =>
           /\ run.selected \subseteq ReturnedCandidates
           /\ run.probed \subseteq run.selected

\* A cycle in which one chain failed and a pool of the other was probed.
C24_Witness ==
    /\ run.phase = "sleep"
    /\ run.failed # {}
    /\ run.probed # {}

(***************************************************************************)
(* C25: a storage error raised during a cycle (by get_recently_seen,       *)
(* mark_as_seen, set_last_alert_ts, purge_seen_older_than or the cursor    *)
(* operations) never terminates the continuous loop of main().             *)
(***************************************************************************)
C25_StorageErrorNeverEndsLoop ==
    run.phase # "crashed"

\* The storage errors that are caught: those of the cursor operations (in
\* the discovery future) and of mark_as_seen, set_last_alert_ts and
\* get_last_alert_ts (in the alert futures).  Only get_recently_seen and
\* purge_seen_older_than end main().
OnlyUncaughtStorageErrorsEndLoop ==
    /\ run.phase = "crashed" =>
           run.error \in {"get_recently_seen", "purge_seen_older_than"}
    /\ run.phase # "crashed" =>
           run.raised \subseteq
               {"cursor", "chain_slug", "get_last_alert_ts", "mark_as_seen",
                "set_last_alert_ts"}

(***************************************************************************)
(* C26: with max_cycles = N > 0 the continuous loop of main() stops by     *)
(* itself after exactly N cycles, and with max_cycles = 0 it never stops   *)
(* by itself.                                                              *)
(***************************************************************************)
C26_LoopEndsAfterMaxCycles ==
    /\ run.phase = "terminated" =>
           /\ run.max_cycles > 0
           /\ run.cycle_idx = run.max_cycles
           /\ run.cycles_done = run.max_cycles
    /\ (~run.once /\ run.max_cycles > 0) => run.cycle_idx <= run.max_cycles
    /\ run.max_cycles = 0 => run.phase # "terminated"

\* With max_cycles > 0 the loop does come to an end: by the max_cycles test
\* or, earlier, by an exception that leaves run_once.
C26_LoopEndsEventually ==
    (~run.once /\ run.max_cycles > 0) ~> (run.phase \in {"terminated", "crashed"})

C26_Witness ==
    /\ run.phase = "terminated"
    /\ run.max_cycles = MaxCyclesConfig
    /\ run.cycles_done = MaxCyclesConfig

\* With max_cycles = 0 the loop is still going after more cycles than any
\* configured limit.
UnlimitedLoopGoesOn ==
    /\ run.max_cycles = 0
    /\ ~run.once
    /\ run.phase = "loop"
    /\ run.cycles_done = MaxLoopCycles

(***************************************************************************)
(* SpecLock: the limiter's internal lock (self._lock) made explicit.       *)
(* Threads call acquire, record_status, get_rate and snapshot; each takes  *)
(* the lock, does the body of its "with self._lock" block and leaves it.   *)
(* In record_status the block ends with the call of the log function when  *)
(* the rate changed.  The caller of acquire sleeps the returned wait after *)
(* the call (time.sleep in gt_get_json / cmc_get_json).                    *)
(* run.owner is the thread inside the lock (0: none); work[t] is where     *)
(* thread t is.                                                            *)
(***************************************************************************)
LockOps == {"acquire", "record_status", "get_rate", "snapshot"}
NoOwner == 0 * 1
IdleThread == [op |-> "none", at |-> "idle", status |-> 0, wait |-> 0]

\* A thread enters a method: acquire first takes a slot of the semaphore.
EnterMethod(t, op, status) ==
    /\ work[t].at = "idle"
    /\ op = "acquire" => limiter.sem > 0
    /\ work' = [work EXCEPT ![t] = [op |-> op, at |-> "lock", status |-> status,
                                    wait |-> 0]]
    /\ limiter' = IF op = "acquire" THEN [limiter EXCEPT !.sem = @ - 1] ELSE limiter
    /\ UNCHANGED <<cfg, now, last, round, pc, loc, cycle, hist, budget,
                   call, wall, cache, fetch, store, sent, run>>

\* with self._lock: (entry)
LockAcquire(t) ==
    /\ work[t].at = "lock"
    /\ run.owner = NoOwner
    /\ run' = [run EXCEPT !.owner = t]
    /\ work' = [work EXCEPT ![t].at = "locked"]
    /\ UNCHANGED <<clientVars, call, wall, cache, fetch, store, sent>>

\* The body of acquire's block, and the exit from it: a token removed and
\* return 0.0, or the wait computed and returned.
AcquireBody(t) ==
    /\ work[t].at = "locked"
    /\ work[t].op = "acquire"
    /\ LET a == AcquireLocked(limiter, now) IN
       /\ limiter' = a.lim
       /\ work' = [work EXCEPT ![t].at = IF a.removed THEN "request" ELSE "sleep",
                               ![t].wait = IF a.removed THEN 0 ELSE WaitTicks(a)]
    /\ run' = [run EXCEPT !.owner = NoOwner]
    /\ UNCHANGED <<cfg, now, last, round, pc, loc, cycle, hist, budget,
                   call, wall, cache, fetch, store, sent>>

\* self._log(...) is called in record_status when the rate was changed.
RateChangeLogged(old, new) == new # old

\* The body of record_status's block up to the log call: with a changed
\* rate the thread goes on to self._log inside the block, otherwise it
\* leaves the block.
RecordBody(t) ==
    /\ work[t].at = "locked"
    /\ work[t].op = "record_status"
    /\ LET l == RecordStatus(limiter, cfg, work[t].status)
           logs == RateChangeLogged(limiter.effective_rps, l.effective_rps) IN
       /\ limiter' = l
       /\ work' = [work EXCEPT ![t].at = IF logs THEN "log" ELSE "idle"]
       /\ run' = IF logs THEN run ELSE [run EXCEPT !.owner = NoOwner]
    /\ UNCHANGED <<cfg, now, last, round, pc, loc, cycle, hist, budget,
                   call, wall, cache, fetch, store, sent>>

\* self._log(f"[api] ... RPS ...") returns, and the block is left.
LogReturns(t) ==
    /\ work[t].at = "log"
    /\ work' = [work EXCEPT ![t].at = "idle"]
    /\ run' = [run EXCEPT !.owner = IF run.owner = t THEN NoOwner ELSE @]
    /\ UNCHANGED <<clientVars, call, wall, cache, fetch, store, sent>>

\* get_rate and snapshot: the block reads the state and is left.
ReadBody(t) ==
    /\ work[t].at = "locked"
    /\ work[t].op \in {"get_rate", "snapshot"}
    /\ work' = [work EXCEPT ![t].at = "idle"]
    /\ run' = [run EXCEPT !.owner = NoOwner]
    /\ UNCHANGED <<clientVars, call, wall, cache, fetch, store, sent>>

\* time.sleep(min(sleep_for, 5.0)) in the caller of acquire, then the GET.
CallerSlept(t) ==
    /\ work[t].at = "sleep"
    /\ work' = [work EXCEPT ![t].at = "request"]
    /\ UNCHANGED <<clientVars, call, wall, cache, fetch, store, sent, run>>

\* The GET completes and the caller calls release().
RequestDone(t) ==
    /\ work[t].at = "request"
    /\ work' = [work EXCEPT ![t].at = "idle"]
    /\ limiter' = [limiter EXCEPT !.sem = @ + 1]
    /\ UNCHANGED <<cfg, now, last, round, pc, loc, cycle, hist, budget,
                   call, wall, cache, fetch, store, sent, run>>

LockTick ==
    /\ now < MaxTime
    /\ now' = now + 1
    /\ UNCHANGED <<cfg, limiter, last, round, pc, loc, cycle, hist, budget,
                   call, wall, cache, fetch, store, sent, run, work>>

InitLock ==
    /\ cfg \in Configs({"cmc"}, {30}, {1}, {WindowBound - 1})
    /\ limiter = NewLimiter(cfg, 0)
    /\ now = 0
    /\ last = NoCall
    /\ round = IdleRound
    /\ pc = [t \in Threads |-> "gate"]
    /\ loc = [t \in Threads |-> NoLoc]
    /\ cycle = NoCycle
    /\ hist = NoHist
    /\ budget = NoBudget
    /\ call = Unused
    /\ wall = 0
    /\ cache = Unused
    /\ fetch = Unused
    /\ store = Unused
    /\ sent = <<>>
    /\ run = [phase |-> "lock", owner |-> NoOwner]
    /\ work = [t \in Threads |-> IdleThread]

NextLock ==
    \/ \E t \in Threads, op \in LockOps, status \in {200, 429} :
           EnterMethod(t, op, status)
    \/ \E t \in Threads : LockAcquire(t)
    \/ \E t \in Threads : AcquireBody(t)
    \/ \E t \in Threads : RecordBody(t)
    \/ \E t \in Threads : LogReturns(t)
    \/ \E t \in Threads : ReadBody(t)
    \/ \E t \in Threads : CallerSlept(t)
    \/ \E t \in Threads : RequestDone(t)
    \/ LockTick

SpecLock == InitLock /\ [][NextLock]_vars

(***************************************************************************)
(* C31: no thread holds the limiter's internal lock while it sleeps,       *)
(* performs HTTP I/O or calls the log function.                            *)
(***************************************************************************)
C31_LockOnlyForBookkeeping ==
    \A t \in Threads :
        run.owner = t => work[t].at \notin {"sleep", "request", "log"}

\* What does hold: the lock is never held during a sleep or a GET, and it
\* is held during every call of the log function made by record_status.
LockHeldOnlyInBlockOrLog ==
    \A t \in Threads :
        /\ work[t].at \in {"sleep", "request"} => run.owner # t
        /\ work[t].at = "log" => run.owner = t
        /\ run.owner = t => work[t].at \in {"locked", "log"}

\* While one thread is in the log call, another waits for the lock.
LockWaitsForLog ==
    \E t, u \in Threads : work[t].at = "log" /\ work[u].at = "lock"

(***************************************************************************)
(* C32: with remaining = max(0, max(0, total_budget - discovery_cost -     *)
(* reserve) - spent_so_far), the ohlcv_budget computed by run_once is 0    *)
(* whenever remaining = 0 and is at least min_ohlcv_probes whenever        *)
(* remaining > 0.  Checked under SpecBudget.                               *)
(***************************************************************************)
C32_BudgetZeroOrAtLeastFloor ==
    budget.phase = "computed" =>
        LET reserve == budget.cmc_safety_budget
                         + (IF budget.allow_gt_ohlcv_fallback THEN 3 ELSE 0)
            base == budget.total_budget - budget.discovery_cost - reserve
            remaining == Max(0, Max(0, base) - budget.spent_so_far)
        IN  /\ remaining = 0 => budget.ohlcv_budget = 0
            /\ remaining > 0 => budget.ohlcv_budget >= budget.min_ohlcv_probes

\* The floor acts: something remains, less than min_ohlcv_probes, after
\* requests were already spent, and the budget is min_ohlcv_probes.
C32_Witness ==
    /\ budget.phase = "computed"
    /\ budget.spent_so_far > 0
    /\ AvailableForOhlcv(budget) > 0
    /\ AvailableForOhlcv(budget) < budget.min_ohlcv_probes
    /\ budget.min_ohlcv_probes <= budget.max_ohlcv_probes_cap
    /\ budget.ohlcv_budget = budget.min_ohlcv_probes

\* Nothing remains although the floor is positive, and the budget is 0.
NothingRemainsNoProbes ==
    /\ budget.phase = "computed"
    /\ budget.min_ohlcv_probes > 0
    /\ budget.total_budget > 0
    /\ AvailableForOhlcv(budget) = 0
    /\ budget.ohlcv_budget = 0

(***************************************************************************)
(* SpecSources: the choice of the discovery sources over the cycles.       *)
(* main() runs the cycles (cycle_idx 1, 2, ... in the loop, one cycle with *)
(* cycle_idx 0 with --once); in each cycle cmc_discover_candidates runs    *)
(* for every chain and goes through its chosen sources: get_progress, the  *)
(* page requests, bump_progress.  run.history keeps, for every finished    *)
(* cycle, the sources each chain went through and the cursors before and   *)
(* after.                                                                  *)
(***************************************************************************)
MaxSourceCycles == 4

SourceLists == {<<"new">>, <<"new", "dexes">>, <<"new", "trending", "dexes">>}

SourceConfigs ==
    [ cmc_sources_list : SourceLists, cmc_rotate_sources : BOOLEAN,
      cmc_pages_per_chain : {1}, cmc_dex_pages_per_chain : {1} ]

NewSourceRun(cycle_idx, once, history, cursors) ==
    [ phase |-> "discover", once |-> once, cycle_idx |-> cycle_idx,
      next_source |-> [ch \in Chains |-> 1],
      queried |-> [ch \in Chains |-> <<>>],
      before |-> cursors, history |-> history ]

\* One turn of "for source in chosen_sources" for one chain.
QuerySource(chain) ==
    LET chosen == ChosenSources(cfg, run.cycle_idx)
        i == run.next_source[chain]
        source == chosen[i]
        start_page == GetProgress(store, chain, source)
        limit == PageLimit(cfg, source)
    IN  /\ run.phase = "discover"
        /\ i <= Len(chosen)
        /\ store' = BumpProgress(store, chain, source, NextPage(start_page, limit))
        /\ run' = [run EXCEPT !.next_source[chain] = i + 1,
                              !.queried[chain] = Append(@, source)]
        /\ UNCHANGED <<clientVars, call, wall, cache, fetch, sent, work>>

\* All discovery futures are done; run_once goes to its end.
SourcesDone ==
    /\ run.phase = "discover"
    /\ \A ch \in Chains :
           run.next_source[ch] > Len(ChosenSources(cfg, run.cycle_idx))
    /\ run' = [run EXCEPT
                 !.phase = "sleep",
                 !.history = Append(@, [cycle_idx |-> run.cycle_idx,
                                        queried |-> run.queried,
                                        before |-> run.before,
                                        after |-> store.progress_cursors])]
    /\ UNCHANGED <<clientVars, call, wall, cache, fetch, store, sent, work>>

\* if args.once: return.  Otherwise cycle_idx += 1 and the next run_once.
NextSourceCycle ==
    /\ run.phase = "sleep"
    /\ run' = IF run.once
              THEN [run EXCEPT !.phase = "returned"]
              ELSE NewSourceRun(run.cycle_idx + 1, FALSE, run.history,
                                store.progress_cursors)
    /\ ~run.once => run.cycle_idx < MaxSourceCycles
    /\ UNCHANGED <<clientVars, call, wall, cache, fetch, store, sent, work>>

InitSources ==
    /\ cfg \in SourceConfigs
    /\ limiter = Unused
    /\ now = 0
    /\ last = NoCall
    /\ round = IdleRound
    /\ pc = [t \in Threads |-> "gate"]
    /\ loc = [t \in Threads |-> NoLoc]
    /\ cycle = NoCycle
    /\ hist = NoHist
    /\ budget = NoBudget
    /\ call = Unused
    /\ wall = 0
    /\ cache = Unused
    /\ fetch = Unused
    /\ store = EmptyStore
    /\ sent = <<>>
    /\ \E once \in BOOLEAN :
           run = NewSourceRun(IF once THEN 0 * 1 ELSE 1, once, <<>>,
                              EmptyStore.progress_cursors)
    /\ work = <<>>

NextSources ==
    \/ \E chain \in Chains : QuerySource(chain)
    \/ SourcesDone
    \/ NextSourceCycle

SpecSources == InitSources /\ [][NextSources]_vars

SourcesOf(s) == {s[i] : i \in DOMAIN s}

\* The cursors of the sources a chain did not go through in a cycle are
\* what they were before it.
OtherCursorsUnchanged(h) ==
    \A ch \in Chains, src \in Sources :
        src \notin SourcesOf(h.queried[ch])
            => h.after[<<ch, src>>] = h.before[<<ch, src>>]

\* With the flag off a cycle goes through all configured sources, in order.
AllSourcesWhenNotRotating(h) ==
    ~cfg.cmc_rotate_sources
        => \A ch \in Chains : h.queried[ch] = cfg.cmc_sources_list

\* k consecutive cycles go through every source exactly once, per chain.
EverySourceOnceInKCycles ==
    LET k == Len(cfg.cmc_sources_list) IN
    cfg.cmc_rotate_sources =>
        \A first \in 1..Len(run.history) :
            first + k - 1 <= Len(run.history) =>
                \A ch \in Chains, src \in SourcesOf(cfg.cmc_sources_list) :
                    Cardinality({ j \in first..(first + k - 1) :
                                    src \in SourcesOf(run.history[j].queried[ch]) }) = 1

(***************************************************************************)
(* C33: with cmc_rotate_sources on and k configured sources, each cycle    *)
(* queries exactly one source per chain, the one at index                  *)
(* (cycle_idx - 1) mod k, so any k consecutive cycles query every source   *)
(* exactly once, and the cursors of the sources not chosen in a cycle are  *)
(* left unchanged by it; with the flag off every cycle queries all k       *)
(* sources.                                                                *)
(***************************************************************************)
C33_RotationByCycleIndex ==
    LET k == Len(cfg.cmc_sources_list) IN
    /\ \A j \in 1..Len(run.history) :
         LET h == run.history[j] IN
         /\ cfg.cmc_rotate_sources =>
                \A ch \in Chains :
                    h.queried[ch] = <<cfg.cmc_sources_list[((h.cycle_idx - 1) % k) + 1]>>
         /\ OtherCursorsUnchanged(h)
         /\ AllSourcesWhenNotRotating(h)
    /\ EverySourceOnceInKCycles

\* C33 as the code has it: the index is max(0, cycle_idx - 1) mod k, which
\* is (cycle_idx - 1) mod k in the loop, where cycle_idx starts at 1, and 0
\* in the single cycle of --once, where cycle_idx is 0.
C33_RotationByCycleIndexFromOne ==
    LET k == Len(cfg.cmc_sources_list) IN
    /\ \A j \in 1..Len(run.history) :
         LET h == run.history[j] IN
         /\ cfg.cmc_rotate_sources =>
                \A ch \in Chains :
                    h.queried[ch] =
                        <<cfg.cmc_sources_list[(IF h.cycle_idx >= 1
                                                THEN (h.cycle_idx - 1) % k
                                                ELSE 0) + 1]>>
         /\ OtherCursorsUnchanged(h)
         /\ AllSourcesWhenNotRotating(h)
    /\ EverySourceOnceInKCycles

\* Three sources, rotation on: four cycles are done, the fourth went
\* through the first source again, whose cursor has advanced twice.
C33_Witness ==
    /\ cfg.cmc_rotate_sources
    /\ Len(cfg.cmc_sources_list) = 3
    /\ Len(run.history) = 4
    /\ run.history[4].queried["base"] = <<"new">>
    /\ run.history[2].queried["base"] = <<"trending">>
    /\ store.progress_cursors[<<"base", "new">>] = 3
    /\ store.progress_cursors[<<"base", "trending">>] = 2

(***************************************************************************)
(* SpecSelect: run_once from the seen filter to the submission of the      *)
(* probes (main.py 207-270), for the candidates, the recently seen pools   *)
(* and the budget it has at that point:                                    *)
(*     candidates = [m for m in aggregated if m["pool"] not in seen]       *)
(*     candidates.sort(key=(liquidity, tx24h), reverse=True)               *)
(*     selected = candidates[:ohlcv_budget] if ohlcv_budget > 0 else []    *)
(*     if selected: one _work per selected candidate                       *)
(***************************************************************************)
MaxCandidates == 3

CandidateItems ==
    [ chain : {"base"}, pool : Pools, liquidity : 1..2, tx24h : 0..1 ]

CandidateLists ==
    UNION { [1..n -> CandidateItems] : n \in 0..MaxCandidates }

\* The sort key of a ranks strictly above the sort key of b.
KeyAbove(a, b) ==
    \/ a.liquidity > b.liquidity
    \/ a.liquidity = b.liquidity /\ a.tx24h > b.tx24h

\* list.sort(reverse=True) is stable: x goes behind the items whose key is
\* not below its own.
RECURSIVE InsertByKey(_, _)
InsertByKey(x, sorted) ==
    IF sorted = <<>> THEN <<x>>
    ELSE IF KeyAbove(x, Head(sorted)) THEN <<x>> \o sorted
    ELSE <<Head(sorted)>> \o InsertByKey(x, Tail(sorted))

\* Faulty variant: the candidates are left in discovery order.
SortCandidatesNotSorted(items) == items

RECURSIVE SortCandidates(_)
SortCandidates(items) ==
    IF items = <<>> THEN <<>>
    ELSE InsertByKey(items[Len(items)],
                     SortCandidates(SubSeq(items, 1, Len(items) - 1)))

NotRecentlySeen(aggregated, seen) ==
    SelectSeq(aggregated, LAMBDA m : m.pool \notin seen)

SelectCandidates(aggregated, seen, ohlcv_budget) ==
    IF ohlcv_budget > 0
    THEN Take(SortCandidates(NotRecentlySeen(aggregated, seen)), ohlcv_budget)
    ELSE <<>>

SelectArgs ==
    [ phase : {"args"}, aggregated : CandidateLists, seen : SUBSET Pools,
      ohlcv_budget : 0..MaxCandidates, selected : {<<>>}, probes : {0} ]

ApplySelect ==
    /\ call.phase = "args"
    /\ call' = [call EXCEPT
                  !.phase = "selected",
                  !.selected = SelectCandidates(call.aggregated, call.seen,
                                                call.ohlcv_budget)]
    /\ UNCHANGED <<clientVars, wall, cache, fetch, store, sent, run, work>>

\* if selected: futures[pool.submit(_work, inputs)] for each; else nothing.
SubmitProbes ==
    /\ call.phase = "selected"
    /\ call' = [call EXCEPT !.phase = "probed", !.probes = Len(call.selected)]
    /\ UNCHANGED <<clientVars, wall, cache, fetch, store, sent, run, work>>

InitSelect ==
    /\ ClientUnused
    /\ call \in SelectArgs
    /\ wall = 0
    /\ cache = Unused
    /\ fetch = Unused
    /\ store = Unused
    /\ sent = <<>>
    /\ run = Unused
    /\ work = <<>>

NextSelect == ApplySelect \/ SubmitProbes

SpecSelect == InitSelect /\ [][NextSelect]_vars

ItemsIn(s) == {s[i] : i \in DOMAIN s}

(***************************************************************************)
(* C34: the selected set of a cycle has at most ohlcv_budget candidates    *)
(* and is the top of the not-recently-seen candidates ordered by           *)
(* (liquidity, tx24h) descending: no unselected not-recently-seen          *)
(* candidate ranks strictly above a selected one, and when ohlcv_budget =  *)
(* 0 the selected set is empty and no OHLCV request is issued.             *)
(***************************************************************************)
C34_SelectedIsTopOfCandidates ==
    call.phase \in {"selected", "probed"} =>
        LET candidates == { m \in ItemsIn(call.aggregated) : m.pool \notin call.seen }
            n == Cardinality({ i \in DOMAIN call.aggregated :
                                 call.aggregated[i].pool \notin call.seen })
        IN  /\ Len(call.selected) <= call.ohlcv_budget
            /\ Len(call.selected) = Min(call.ohlcv_budget, n)
            /\ ItemsIn(call.selected) \subseteq candidates
            /\ \A c \in candidates \ ItemsIn(call.selected), s \in ItemsIn(call.selected) :
                   ~KeyAbove(c, s)
            /\ \A i, j \in DOMAIN call.selected :
                   i < j => ~KeyAbove(call.selected[j], call.selected[i])
            /\ call.ohlcv_budget = 0 => call.selected = <<>>
            /\ (call.phase = "probed" /\ call.ohlcv_budget = 0) => call.probes = 0

\* Three candidates in rising order of rank, one of them recently seen, a
\* budget of one: the candidate picked is the better of the two others.
C34_Witness ==
    /\ call.phase = "probed"
    /\ call.ohlcv_budget = 1
    /\ Len(call.aggregated) = 3
    /\ KeyAbove(call.aggregated[2], call.aggregated[1])
    /\ KeyAbove(call.aggregated[3], call.aggregated[2])
    /\ call.seen = {call.aggregated[3].pool}
    /\ call.aggregated[1].pool \notin call.seen
    /\ call.aggregated[2].pool \notin call.seen
    /\ call.selected = <<call.aggregated[2]>>
    /\ call.probes = 1

\* Nothing is probed with a budget of 0, whatever the candidates.
NoBudgetNoProbes ==
    /\ call.phase = "probed"
    /\ call.ohlcv_budget = 0
    /\ NotRecentlySeen(call.aggregated, call.seen) # <<>>
    /\ call.probes = 0

(***************************************************************************)
(* SpecWorkers: two probe workers running concurrently, step by step.      *)
(* With run.fn = "_work" they are the workers of run_once (main.py         *)
(* 246-268): cooldown test, fetch_cmc_ohlcv_25h (cache lookup, GET, cache  *)
(* store), mark_as_seen, should_alert_revival_cmc, notifier.send,          *)
(* set_last_alert_ts.  With run.fn = "maybe_alert" they run maybe_alert    *)
(* (alerts.py 83-122): cooldown test, get_window_stats, mark_as_seen,      *)
(* should_alert, set_last_alert_ts, notifier.send.                         *)
(* The first worker probes pool p1, the second p1 or p2.  work[t].log      *)
(* keeps the steps worker t has taken; fetch.requests counts the GETs sent *)
(* to CMC per pool.  The previous window volume is 1.                      *)
(***************************************************************************)
MaxWorkerTicks == 1

WorkerConfigs ==
    [ cooldown_min : {1}, gecko_ttl_sec : {1}, allow_gt_ohlcv_fallback : BOOLEAN,
      min_prev24_usd : {1}, alert_ratio_min : {RatioOne} ]

WorkerStart == 2 * SecPerMin * TicksPerSec

\* last_alert_at of p1 when the workers start: none, 20 s ago, 100 s ago.
LastAlertChoices == {NoTs, SecOf(WorkerStart) - 20, SecOf(WorkerStart) - 100}

NewWorker(pool) ==
    [ chain |-> "base", pool |-> pool, pc |-> "check", log |-> <<>>,
      last |-> NoTs, checked_at |-> 0,
      answer |-> "none", value |-> Zero("none") ]

WorkerKey(t) == <<work[t].chain, work[t].pool>>

\* Faulty variant: the cooldown test never holds a worker back.
PcAfterCheckNoGate(fn, in_cooldown) ==
    IF fn = "_work" THEN "cache_get" ELSE "stats"

\* "if last: ... if now - last_dt < timedelta(minutes=cooldown_min): return"
PcAfterCheck(fn, in_cooldown) ==
    IF in_cooldown THEN "done"
    ELSE IF fn = "_work" THEN "cache_get" ELSE "stats"

\* get_last_alert_ts and the cooldown test.
WorkerCheck(t) ==
    LET last_ts == GetLastAlertTs(store, work[t].pool) IN
    /\ work[t].pc = "check"
    /\ work' = [work EXCEPT
                  ![t].pc = PcAfterCheck(run.fn,
                               InCooldown(last_ts, wall, cfg.cooldown_min)),
                  ![t].last = last_ts, ![t].checked_at = wall,
                  ![t].log = Append(@, "cooldown_check")]
    /\ UNCHANGED <<clientVars, call, wall, cache, fetch, store, sent, run>>

\* fetch_cmc_ohlcv_25h: _get_cached_cmc_ohlcv.
WorkerCacheGet(t) ==
    LET k == WorkerKey(t)
        got == CacheGet(cache[k], "cmc25", cfg.gecko_ttl_sec * TicksPerSec, wall)
    IN  /\ work[t].pc = "cache_get"
        /\ cache' = [cache EXCEPT ![k] = got.cache]
        /\ work' = [work EXCEPT
                      ![t].pc = IF got.hit THEN "mark" ELSE "request",
                      ![t].value = IF got.hit THEN cache[k]["cmc25"].data ELSE @,
                      ![t].answer = IF got.hit THEN "cached" ELSE @,
                      ![t].log = Append(@, "fetch")]
        /\ UNCHANGED <<clientVars, call, wall, fetch, store, sent, run>>

\* Faulty variant: a pool whose fetch gave no data is not marked seen.
PcAfterFetchSkipsFailed(value) == IF value.ok THEN "mark" ELSE "done"

\* fetch_cmc_ohlcv_25h returns and mark_as_seen is next, whatever came back.
PcAfterFetch(value) == "mark"

\* fetch_cmc_ohlcv_25h: the GET and what is made of its answer; with a
\* failed answer and the fallback allowed, _fallback_gt_ohlcv_25h, whose
\* value is returned without being stored under the CMC key.
WorkerRequest(t, cmc_answer, gt_answer) ==
    LET k == WorkerKey(t)
        ttl == cfg.gecko_ttl_sec * TicksPerSec
        val == [vol |-> cmc_answer.vol, ok |-> TRUE, source |-> "CMC DEX"]
        fb == FallbackGtOhlcv25h(cache[k], ttl, wall, gt_answer)
        falls_back == cmc_answer.kind # "ok" /\ cfg.allow_gt_ohlcv_fallback
        value == IF cmc_answer.kind = "ok" THEN val
                 ELSE IF falls_back THEN fb.value ELSE Zero("CMC DEX")
    IN  /\ work[t].pc = "request"
        /\ falls_back \/ gt_answer = [kind |-> "error", vol |-> 0]
        /\ fetch' = [fetch EXCEPT !.requests[work[t].pool] = @ + 1]
        /\ cache' = IF falls_back THEN [cache EXCEPT ![k] = fb.cache] ELSE cache
        /\ work' = [work EXCEPT
                      ![t].pc = IF falls_back THEN PcAfterFetch(value) ELSE "cache_set",
                      ![t].value = value,
                      ![t].answer = cmc_answer.kind]
        /\ UNCHANGED <<clientVars, call, wall, store, sent, run>>

\* fetch_cmc_ohlcv_25h: _set_cached_cmc_ohlcv, return.
WorkerCacheSet(t) ==
    LET k == WorkerKey(t) IN
    /\ work[t].pc = "cache_set"
    /\ cache' = [cache EXCEPT ![k] = CacheSet(cache[k], "cmc25", work[t].value, wall)]
    /\ work' = [work EXCEPT ![t].pc = PcAfterFetch(work[t].value)]
    /\ UNCHANGED <<clientVars, call, wall, fetch, store, sent, run>>

\* maybe_alert: get_window_stats (fetch_ohlcv_49h); None ends the call.
WorkerStats(t, answer) ==
    LET k == WorkerKey(t)
        o == FetchOhlcv49h(cache[k], cfg.gecko_ttl_sec * TicksPerSec, wall, answer)
    IN  /\ work[t].pc = "stats"
        /\ cache' = [cache EXCEPT ![k] = o.cache]
        /\ work' = [work EXCEPT
                      ![t].pc = IF o.value.vol <= 0 THEN "done" ELSE "mark",
                      ![t].value = o.value,
                      ![t].answer = answer.kind,
                      ![t].log = Append(@, "fetch")]
        /\ UNCHANGED <<clientVars, call, wall, fetch, store, sent, run>>

\* storage.mark_as_seen
WorkerMarkSeen(t) ==
    /\ work[t].pc = "mark"
    /\ store' = MarkAsSeen(store, work[t].chain, work[t].pool, wall)
    /\ work' = [work EXCEPT ![t].pc = "evaluate", ![t].log = Append(@, "mark_seen")]
    /\ UNCHANGED <<clientVars, call, wall, cache, fetch, sent, run>>

\* should_alert_revival_cmc in _work, should_alert in maybe_alert; in
\* maybe_alert set_last_alert_ts comes next, in _work notifier.send.
WorkerEvaluate(t) ==
    LET alert == IF run.fn = "_work"
                 THEN ShouldAlertRevivalCmc(work[t].value.vol, 1, work[t].value.ok,
                                            cfg.min_prev24_usd, cfg.alert_ratio_min)
                 ELSE ShouldAlert(work[t].value.vol, 1, cfg.alert_ratio_min)
    IN  /\ work[t].pc = "evaluate"
        /\ work' = [work EXCEPT
                      ![t].pc = IF ~alert THEN "done"
                                ELSE IF run.fn = "_work" THEN "send" ELSE "persist",
                      ![t].log = Append(@, "evaluate")]
        /\ UNCHANGED <<clientVars, call, wall, cache, fetch, store, sent, run>>

\* notifier.send(text); it returns whether the message went out or not.
WorkerSend(t) ==
    /\ work[t].pc = "send"
    /\ sent' = Append(sent, [pool |-> work[t].pool, t |-> wall])
    /\ work' = [work EXCEPT
                  ![t].pc = IF run.fn = "_work" THEN "persist" ELSE "done",
                  ![t].log = Append(@, "notify")]
    /\ UNCHANGED <<clientVars, call, wall, cache, fetch, store, run>>

\* storage.set_last_alert_ts
WorkerPersist(t) ==
    /\ work[t].pc = "persist"
    /\ store' = SetLastAlertTs(store, work[t].pool, SecOf(wall))
    /\ work' = [work EXCEPT
                  ![t].pc = IF run.fn = "_work" THEN "done" ELSE "send",
                  ![t].log = Append(@, "persist")]
    /\ UNCHANGED <<clientVars, call, wall, cache, fetch, sent, run>>

\* The wall clock advances while the workers run.
WorkerTick ==
    /\ run.ticks < MaxWorkerTicks
    /\ \E t \in Threads : work[t].pc # "done"
    /\ wall' = wall + 1
    /\ run' = [run EXCEPT !.ticks = @ + 1]
    /\ UNCHANGED <<clientVars, call, cache, fetch, store, sent, work>>

InitWorkers ==
    /\ cfg \in WorkerConfigs
    /\ limiter = Unused
    /\ now = 0
    /\ last = NoCall
    /\ round = IdleRound
    /\ pc = [t \in Threads |-> "gate"]
    /\ loc = [t \in Threads |-> NoLoc]
    /\ cycle = NoCycle
    /\ hist = NoHist
    /\ budget = NoBudget
    /\ call = Unused
    /\ wall = WorkerStart
    /\ cache = [k \in Chains \X Pools |-> ColdCache]
    /\ fetch = [requests |-> [p \in Pools |-> 0]]
    /\ \E last_ts \in LastAlertChoices :
           store = SetLastAlertTs(EmptyStore, "p1", last_ts)
    /\ sent = <<>>
    /\ \E fn \in {"_work", "maybe_alert"} :
           run = [phase |-> "workers", fn |-> fn, ticks |-> 0]
    /\ \E pool \in Pools :
           work = [t \in Threads |-> NewWorker(IF t = 1 THEN "p1" ELSE pool)]

NextWorkers ==
    \/ \E t \in Threads : WorkerCheck(t)
    \/ \E t \in Threads : WorkerCacheGet(t)
    \/ \E t \in Threads, cmc_answer \in CmcAnswers, gt_answer \in GtAnswers :
           WorkerRequest(t, cmc_answer, gt_answer)
    \/ \E t \in Threads : WorkerCacheSet(t)
    \/ \E t \in Threads, answer \in GtAnswers : WorkerStats(t, answer)
    \/ \E t \in Threads : WorkerMarkSeen(t)
    \/ \E t \in Threads : WorkerEvaluate(t)
    \/ \E t \in Threads : WorkerSend(t)
    \/ \E t \in Threads : WorkerPersist(t)
    \/ WorkerTick

SpecWorkers == InitWorkers /\ [][NextWorkers]_vars

StepsOf(t) == {work[t].log[i] : i \in DOMAIN work[t].log}

\* The worker's cooldown test saw a last_alert_at younger than cooldown_min.
SawFreshAlert(t) ==
    /\ "cooldown_check" \in StepsOf(t)
    /\ work[t].last > 0
    /\ work[t].checked_at - work[t].last * TicksPerSec
           < cfg.cooldown_min * 60 * TicksPerSec

(***************************************************************************)
(* C35: for a selected candidate whose pool has a last_alert_at less than  *)
(* cooldown_min minutes old, the probe worker issues no OHLCV request and  *)
(* sends no notification, and leaves the seen set and last_alert_at        *)
(* unchanged.                                                              *)
(***************************************************************************)
C35_CooldownSkipsProbe ==
    \A t \in Threads :
        (run.fn = "_work" /\ SawFreshAlert(t)) =>
            /\ work[t].pc = "done"
            /\ work[t].log = <<"cooldown_check">>
            /\ work[t].answer = "none"
            /\ (\A u \in Threads : SawFreshAlert(u) \/ work[u].pc = "check") =>
                   /\ fetch.requests = [p \in Pools |-> 0]
                   /\ sent = <<>>
                   /\ store.seen_pools = EmptyStore.seen_pools
                   /\ store.state["p1"] = SecOf(WorkerStart) - 20

\* Both workers were held back by the cooldown of p1.
C35_Witness ==
    /\ run.fn = "_work"
    /\ \A t \in Threads : SawFreshAlert(t) /\ work[t].pc = "done"
    /\ wall > WorkerStart

\* The place of a step in the order cooldown check, OHLCV fetch, mark-seen,
\* alert evaluation, notification, persist last_alert_at.
StepRank(step) ==
    CASE step = "cooldown_check" -> 1
      [] step = "fetch" -> 2
      [] step = "mark_seen" -> 3
      [] step = "evaluate" -> 4
      [] step = "notify" -> 5
      [] step = "persist" -> 6

StepsInOrder(t) ==
    \A i, j \in DOMAIN work[t].log :
        i < j => StepRank(work[t].log[i]) < StepRank(work[t].log[j])

(***************************************************************************)
(* C36: for every candidate, in run_once's probe worker and in             *)
(* maybe_alert, the steps occur in the order cooldown check, OHLCV fetch,  *)
(* mark-seen, alert evaluation, notification, persist last_alert_at, under *)
(* every interleaving with other workers; in particular last_alert_at is   *)
(* never written before the notification has been sent.                    *)
(***************************************************************************)
C36_StepsInOrder ==
    \A t \in Threads :
        /\ StepsInOrder(t)
        /\ "persist" \in StepsOf(t) => "notify" \in StepsOf(t)

\* The order holds in the probe worker of run_once; maybe_alert keeps it
\* up to the evaluation and then persists before it notifies.
WorkStepsInOrder ==
    \A t \in Threads :
        /\ run.fn = "_work" =>
               /\ StepsInOrder(t)
               /\ "persist" \in StepsOf(t) => "notify" \in StepsOf(t)
        /\ run.fn = "maybe_alert" =>
               /\ "notify" \in StepsOf(t) => "persist" \in StepsOf(t)
               /\ \A i, j \in DOMAIN work[t].log :
                      (i < j /\ work[t].log[j] \notin {"notify", "persist"})
                          => StepRank(work[t].log[i]) < StepRank(work[t].log[j])

\* maybe_alert has written last_alert_at and has not yet notified.
PersistedBeforeNotified ==
    \E t \in Threads :
        /\ run.fn = "maybe_alert"
        /\ work[t].pc = "send"
        /\ store.state[work[t].pool] = SecOf(wall)
        /\ sent = <<>>

\* A worker of run_once that got past the cooldown test and is through
\* with the fetch and the marking.
PassedGate(t) ==
    /\ run.fn = "_work"
    /\ "cooldown_check" \in StepsOf(t)
    /\ ~SawFreshAlert(t)
    /\ work[t].pc \in {"evaluate", "send", "persist", "done"}

(***************************************************************************)
(* C37: in run_once, every selected candidate that passes the cooldown     *)
(* gate is marked seen in that cycle, whatever the OHLCV fetch produced    *)
(* (data, empty or short candle list, validation failure, HTTP error,      *)
(* fallback result) and whether or not an alert fired.                     *)
(***************************************************************************)
C37_MarkedSeenWhateverTheFetch ==
    \A t \in Threads :
        /\ PassedGate(t) =>
               /\ "mark_seen" \in StepsOf(t)
               /\ store.seen_pools[WorkerKey(t)] # NoTs
               /\ store.seen_pools[WorkerKey(t)] >= SecOf(WorkerStart)
        /\ (run.fn = "_work" /\ work[t].pc = "done") =>
               (SawFreshAlert(t) \/ PassedGate(t))

\* A worker whose GET failed, with no fallback, is done and its pool is
\* marked seen; no alert fired.
C37_Witness ==
    \E t \in Threads :
        /\ PassedGate(t)
        /\ work[t].pc = "done"
        /\ work[t].answer = "error"
        /\ ~cfg.allow_gt_ohlcv_fallback
        /\ "notify" \notin StepsOf(t)
        /\ store.seen_pools[WorkerKey(t)] # NoTs

\* The same with the fallback's value, and with an alert fired.
MarkedSeenAfterFallbackAndAlert ==
    \E t \in Threads :
        /\ PassedGate(t)
        /\ work[t].pc = "done"
        /\ work[t].answer = "invalid"
        /\ work[t].value.source = "CMC->GT fallback"
        /\ "notify" \in StepsOf(t)
        /\ store.seen_pools[WorkerKey(t)] # NoTs

\* Both workers probe the same pool.
SamePoolWorkers == \A t, u \in Threads : work[t].pool = work[u].pool

(***************************************************************************)
(* C40: when two probe workers call fetch_cmc_ohlcv_25h concurrently for   *)
(* the same (chain, pool) with no cached entry, at most one upstream       *)
(* request is issued for that pool between them, under every interleaving. *)
(***************************************************************************)
C40_OneRequestPerPool ==
    (run.fn = "_work" /\ SamePoolWorkers) =>
        \A p \in Pools : fetch.requests[p] <= 1

\* One request is issued per worker that found no entry, and none by a
\* worker that found one.
OneRequestPerCacheMiss ==
    run.fn = "_work" =>
        \A p \in Pools :
            fetch.requests[p] =
                Cardinality({ t \in Threads :
                    /\ work[t].pool = p
                    /\ work[t].answer \notin {"none", "cached"} })

\* The second worker started after the first had stored its value, and
\* was served from the cache.
ServedFromCache ==
    /\ run.fn = "_work"
    /\ SamePoolWorkers
    /\ \E t \in Threads : work[t].answer = "cached"
    /\ fetch.requests["p1"] = 1

(***************************************************************************)
(* SpecHttpCalls: every thread makes one gt_get_json / cmc_get_json call   *)
(* and time passes while a call sleeps.  SpecHttpCallsFair adds what the   *)
(* claim assumes: every thread that can take a step takes one (the         *)
(* interpreter switches threads, session.get returns or raises within its  *)
(* timeout) and the clock advances.                                        *)
(***************************************************************************)
CallsPerMinSlow == {6, 60}

Sleeping(t) == pc[t] \in {"throttle", "retry_sleep"} /\ loc[t].wake > now

\* Time passes: while a call sleeps, and up to MaxTime otherwise.
Elapse ==
    /\ now < MaxTime \/ \E t \in Threads : Sleeping(t)
    /\ now' = now + 1
    /\ UNCHANGED <<cfg, limiter, last, round, pc, loc, cycle, hist, budget, botVars>>

\* One step of thread t inside gt_get_json / cmc_get_json.
CallStep(t) ==
    \/ SemAcquire(t)
    \/ TakeToken(t)
    \/ Throttled(t)
    \/ GetRaises(t)
    \/ \E status \in Statuses, retry \in RetryAfterHeaders :
         GetReturns(t, status, retry)
    \/ Record(t)
    \/ Load429(t)
    \/ Store429(t)
    \/ RetrySlept(t)
    \/ LoadPenalty(t)
    \/ StorePenalty(t)
    \/ Release(t)
    \/ LoadRequests(t)
    \/ StoreRequests(t)

InitHttpCalls ==
    InitWith(Configs(Providers, CallsPerMinSlow, RetryAfterCapsSec,
                     {WindowBound - 1}))

NextHttpCalls ==
    \/ Elapse
    \/ \E t \in Threads : CallStep(t)

SpecHttpCalls == InitHttpCalls /\ [][NextHttpCalls]_vars

SpecHttpCallsFair ==
    /\ SpecHttpCalls
    /\ WF_vars(Elapse)
    /\ \A t \in Threads : WF_vars(CallStep(t))

\* The call of thread t is over: it returned a dict or raised.
CallOver(t) ==
    pc[t] = "done" /\ loc[t].result \in {"returned", "raised", "http_error"}

\* The sleeps under way are no longer than their caps.
SleepsCapped ==
    \A t \in Threads :
      /\ pc[t] = "throttle" =>
           loc[t].wake - now <= ThrottleSleepCapSec * TicksPerSec
      /\ pc[t] = "retry_sleep" =>
           loc[t].wake - now <= cfg.retry_after_cap * TicksPerSec

(***************************************************************************)
(* C38: every gt_get_json / cmc_get_json call eventually returns or        *)
(* raises, given that every GET completes and threads are scheduled        *)
(* fairly; the limiter sleep is at most 5 seconds and the sleep after a    *)
(* 429 at most the provider's retry_after_cap.                             *)
(***************************************************************************)
C38_CallsEndAndSleepsAreCapped ==
    /\ \A t \in Threads : <>CallOver(t)
    /\ []SleepsCapped

\* A call slept through a capped Retry-After and is over, while another
\* sleeps the four seconds the limiter asks for at 0.2 requests per second.
C38_Witness ==
    \E t, u \in Threads :
      /\ CallOver(t)
      /\ hist.slept > 0
      /\ pc[u] = "throttle"
      /\ loc[u].wake - now = (ThrottleSleepCapSec - 1) * TicksPerSec

(***************************************************************************)
(* SpecBuckets: _bucketed_search of the single-file variant (wakebot.py).  *)
(* call holds the configuration, run the main thread's position and its    *)
(* local variables, work the futures dict (one entry per bucket, a bucket  *)
(* has at most one future at a time).  run.submitted counts the submits    *)
(* of each bucket, run.late the submits made while len(acc) was at or      *)
(* above BUCKET_SEARCH_TARGET, run.left holds the futures the search       *)
(* dropped while they were running.                                        *)
(***************************************************************************)
MaxBuckets == 3         \* len(_make_buckets()) is drawn from 1..this
MaxRetryLimit == 1      \* BUCKET_RETRY_LIMIT is drawn from 0..this
MaxSearchTarget == 2    \* BUCKET_SEARCH_TARGET is drawn from 0..this
MaxSearchWorkers == 2   \* BUCKET_SEARCH_WORKERS is drawn from 1..this
MaxNewPairs == 2        \* pairs of one answer that are new and on the chain

Buckets == 1..MaxBuckets

\* BUCKET_SEARCH_TARGET is int(os.getenv(...)), BUCKET_SEARCH_WORKERS and
\* BUCKET_RETRY_LIMIT are clamped to >= 1 and >= 0.
BucketArgs ==
    [ phase       : {"args"},
      buckets     : 1..MaxBuckets,
      target      : 0..MaxSearchTarget,
      workers     : 1..MaxSearchWorkers,
      retry_limit : 0..MaxRetryLimit ]

\* What fetch_bucket returns: None after an exception, an empty list, or a
\* list of pairs of which `fresh` are on the chain and not seen before.
BucketResults ==
    [kind : {"none", "empty"}, fresh : {0}]
      \cup [kind : {"pairs"}, fresh : 0..MaxNewPairs]

NoResult == [kind |-> "unset", fresh |-> 0]
NoFuture == [state |-> "none", attempt |-> 0, result |-> NoResult]

\* max_workers = max(1, min(len(buckets), BUCKET_SEARCH_WORKERS))
SearchWorkers(c) == Max(1, Min(c.buckets, c.workers))

\* queue = deque((bucket, 0) for bucket in buckets); futures = {}
NewSearch(c) ==
    [ phase     |-> "fill",
      queue     |-> [i \in 1..c.buckets |-> [bucket |-> i, attempt |-> 0]],
      snapshot  |-> {},
      acc       |-> 0,
      left      |-> {},
      submitted |-> [b \in Buckets |-> 0],
      late      |-> 0 ]

\* The keys of the futures dict.
Futures(w) == { b \in Buckets : w[b].state # "none" }

\* submit(pool, bucket, attempt): the future joins the dict.
Submitted(w, e) ==
    [w EXCEPT ![e.bucket] = [state |-> "pending", attempt |-> e.attempt,
                             result |-> NoResult]]

\* The local variables after submit(pool, *queue.popleft()).
AfterSubmit(r, q, n) ==
    [r EXCEPT !.queue = Tail(q),
              !.acc = n,
              !.submitted[Head(q).bucket] = @ + 1,
              !.late = IF n >= call.target THEN @ + 1 ELSE @]

\* Faulty variant: the search never stops early.
TargetReachedNever(c, n) == FALSE

\* BUCKET_SEARCH_TARGET > 0 and len(acc) >= BUCKET_SEARCH_TARGET
TargetReached(c, n) == c.target > 0 /\ n >= c.target

\* if not pairs: if attempt + 1 <= BUCKET_RETRY_LIMIT: queue.append(...)
QueueAfter(c, q, b, f) ==
    IF f.result.kind # "pairs" /\ f.attempt + 1 <= c.retry_limit
    THEN Append(q, [bucket |-> b, attempt |-> f.attempt + 1])
    ELSE q

\* acc.append(p) for every pair on the chain that was not seen before
AccAfter(n, f) == IF f.result.kind = "pairs" THEN n + f.result.fresh ELSE n

\* while queue and len(futures) < max_workers: submit(pool, *queue.popleft())
FillPool ==
    /\ run.phase = "fill"
    /\ IF run.queue # <<>> /\ Cardinality(Futures(work)) < SearchWorkers(call)
       THEN /\ work' = Submitted(work, Head(run.queue))
            /\ run' = AfterSubmit(run, run.queue, run.acc)
       ELSE /\ work' = work
            /\ run' = [run EXCEPT !.phase = "wait"]
    /\ UNCHANGED <<clientVars, call, wall, cache, fetch, store, sent>>

\* while futures: for fut in as_completed(list(futures)); with no future
\* left the with block is left.
WhileFutures ==
    /\ run.phase = "wait"
    /\ run' = IF Futures(work) = {}
              THEN [run EXCEPT !.phase = "exit"]
              ELSE [run EXCEPT !.phase = "iter", !.snapshot = Futures(work)]
    /\ UNCHANGED <<clientVars, call, wall, cache, fetch, store, sent, work>>

\* A thread of the pool takes the future and calls fetch_bucket.
BucketStarts(b) ==
    /\ work[b].state = "pending"
    /\ work' = [work EXCEPT ![b].state = "running"]
    /\ UNCHANGED <<clientVars, call, wall, cache, fetch, store, sent, run>>

\* fetch_bucket returns.
BucketCompletes(b, result) ==
    /\ work[b].state = "running"
    /\ work' = [work EXCEPT ![b].state = "done", ![b].result = result]
    /\ UNCHANGED <<clientVars, call, wall, cache, fetch, store, sent, run>>

\* The body of the for loop for a completed future of the snapshot.  When
\* the target is reached the pending futures are cancelled (a running one
\* cannot be), futures and queue are cleared and both loops are left.
TakeCompleted(b) ==
    /\ run.phase = "iter"
    /\ b \in run.snapshot
    /\ work[b].state = "done"
    /\ LET f == work[b]
           q == QueueAfter(call, run.queue, b, f)
           n == AccAfter(run.acc, f)
           w == [work EXCEPT ![b] = NoFuture]
           rest == run.snapshot \ {b}
           pos == IF rest = {} THEN "wait" ELSE "iter"
       IN  IF TargetReached(call, n)
           THEN /\ work' = [c \in Buckets |-> NoFuture]
                /\ run' = [run EXCEPT !.phase = "exit", !.queue = <<>>,
                                      !.snapshot = {}, !.acc = n,
                                      !.left = { c \in Buckets :
                                                   w[c].state = "running" }]
           ELSE IF q # <<>>
           THEN /\ work' = Submitted(w, Head(q))
                /\ run' = [AfterSubmit(run, q, n) EXCEPT !.phase = pos,
                                                         !.snapshot = rest]
           ELSE /\ work' = w
                /\ run' = [run EXCEPT !.phase = pos, !.snapshot = rest,
                                      !.queue = q, !.acc = n]
    /\ UNCHANGED <<clientVars, call, wall, cache, fetch, store, sent>>

\* A future that was running when the search stopped comes to its end.
LeftCompletes(b) ==
    /\ b \in run.left
    /\ run' = [run EXCEPT !.left = @ \ {b}]
    /\ UNCHANGED <<clientVars, call, wall, cache, fetch, store, sent, work>>

\* The with block ends (the pool is shut down, waiting for its threads):
\* return acc
SearchReturns ==
    /\ run.phase = "exit"
    /\ run.left = {}
    /\ run' = [run EXCEPT !.phase = "returned"]
    /\ UNCHANGED <<clientVars, call, wall, cache, fetch, store, sent, work>>

InitBuckets ==
    /\ ClientUnused
    /\ call \in BucketArgs
    /\ wall = 0
    /\ cache = Unused
    /\ fetch = Unused
    /\ store = Unused
    /\ sent = <<>>
    /\ run = NewSearch(call)
    /\ work = [b \in Buckets |-> NoFuture]

BucketStep(b) ==
    \/ BucketStarts(b)
    \/ \E result \in BucketResults : BucketCompletes(b, result)
    \/ LeftCompletes(b)

SearchStep ==
    \/ FillPool
    \/ WhileFutures
    \/ \E b \in Buckets : TakeCompleted(b)
    \/ SearchReturns

NextBuckets == SearchStep \/ \E b \in Buckets : BucketStep(b)

SpecBuckets == InitBuckets /\ [][NextBuckets]_vars

\* The main thread goes on when it can, every call of fetch_bucket starts
\* and comes to an end (ds_get_json has a timeout).
SpecBucketsFair ==
    /\ SpecBuckets
    /\ WF_vars(SearchStep)
    /\ \A b \in Buckets : WF_vars(BucketStep(b))

\* The search has stopped: nothing is queued or awaited any more.
SearchStopped ==
    /\ run.phase \in {"exit", "returned"}
    /\ run.queue = <<>>
    /\ Futures(work) = {}

(***************************************************************************)
(* C39 as stated: once the number of accumulated pairs reaches             *)
(* BUCKET_SEARCH_TARGET no further bucket request is submitted.            *)
(***************************************************************************)
C39_NoSubmitOnceTargetReached == run.late = 0

(***************************************************************************)
(* C39, amended: with BUCKET_SEARCH_TARGET > 0, once the number of         *)
(* accumulated pairs reaches it no further bucket request is submitted,    *)
(* the queue and the futures are cleared and the search returns; a target  *)
(* of 0 or less is no target.  In every case each entry of the bucket list *)
(* is submitted at most BUCKET_RETRY_LIMIT + 1 times and the search        *)
(* returns.                                                                *)
(***************************************************************************)
C39_StopsAtPositiveTarget ==
    /\ [](call.target > 0 => run.late = 0)
    /\ [](call.target > 0 /\ run.acc >= call.target => SearchStopped)
    /\ [](\A b \in Buckets : run.submitted[b] <= call.retry_limit + 1)
    /\ <>(run.phase = "returned")

\* The target was reached while a bucket was queued for a retry and another
\* request was running; the search has returned.
C39_Witness ==
    /\ call.target > 0
    /\ run.acc >= call.target
    /\ run.phase = "returned"
    /\ \E b \in Buckets : run.submitted[b] = call.retry_limit + 1
    /\ \E b \in 1..call.buckets : run.submitted[b] = 0

\* Without a target every bucket is tried to the limit.
NoTargetAllBucketsTried ==
    /\ call.target = 0
    /\ run.phase = "returned"
    /\ run.acc > 0
    /\ \A b \in 1..call.buckets : run.submitted[b] >= 1

====
